---------------------------- MODULE Spec2Model ----------------------------
(***************************************************************************)
(* Model of the rate limiting engine of the API gateway:                   *)
(*   - createRateLimiter (middlewares/rateLimiter.ts): one Redis counter   *)
(*     per (identifier, window), INCRBY weight + EXPIRE ... GT;            *)
(*   - the plan based limiter (apiKeyRateLimitMiddleware, checkRateLimits, *)
(*     recordRequest of services/rateLimitService.ts): GET of three        *)
(*     period counters, then INCR + EXPIRE of the three counters;          *)
(*   - the protected router's middleware chain.                            *)
(* Time is in milliseconds.  The clock visits a short list of instants     *)
(* chosen around minute, hour and day boundaries.                          *)
(***************************************************************************)
EXTENDS Integers, Sequences, FiniteSets, TLC

VARIABLES
    clk,         \* index of the current instant; Date.now() = Instant(clk)
    redisUp,     \* whether the shared store answers commands
    dbUp,        \* whether the durable store (prisma) answers queries
    redisHung,   \* whether the shared store has stopped replying to commands
    redisStore,  \* Redis keys: key -> [count, exp]; exp = NoExpiry when none
    dbUsage,     \* rows of the Usage table: key -> requestCount
    cfg,         \* the RateLimitConfig of the createRateLimiter instance
    rl,          \* per request: locals and response of createRateLimiter's handler
    plan,        \* the RatePlan of the API key: limits per minute, hour, day
    pl,          \* per request: locals and response of apiKeyRateLimitMiddleware
    apiKeys,     \* rows of the ApiKey table: keyHash -> [id, userId, planId, status]
    chain,       \* per request: its place in the protected router's chain
    routeLimits,     \* the RouteRateLimit list given to createRouteRateLimiter
    routeLimitCache, \* the Map of the route limiter: key -> [count, resetTime]
    rt,          \* per request: locals and response of the route limiter
    keyed,       \* per increment at a drawn instant: the bucket keys it uses
    procCache,   \* per process instance: the Map of its route limiter
    ratePlans,   \* rows of the RatePlan table: a sequence of [id, name]
    ops,         \* per call of the API key service: its arguments and locals
    proc,        \* the server process: listener, connections, exit code
    cch          \* cacheResponse: the cached responses and, per request, its locals

vars == <<clk, redisUp, dbUp, redisHung, redisStore, dbUsage, cfg, rl, plan, pl,
          apiKeys, chain, routeLimits, routeLimitCache, rt, keyed,
          procCache, ratePlans, ops, proc, cch>>

\* the state of the route limiter, and the keys of the drawn increments
route == <<routeLimits, routeLimitCache, rt, keyed, procCache, ratePlans, ops, proc, cch>>

\* what the handlers of createRateLimiter leave alone
notRl == <<plan, pl, apiKeys, chain>>

\* what the handlers of the plan based limiter leave alone
notPl == <<cfg, rl, plan, apiKeys, chain>>

\* what the environment leaves alone
handlers == <<cfg, rl, plan, pl, apiKeys, chain>>

--------------------------------------------------------------------------
(* Bounds of the model *)

\* number of requests handled by one limiter in a behaviour
NumReq == 2
\* number of instants the clock visits
NumInstants == 2
\* largest maxRequests of a createRateLimiter configuration
MaxLimit == 2
\* largest weight of a createRateLimiter configuration
MaxWeight == 2
\* largest requestsPerMinute of a route override
MaxRouteLimit == 1
\* longest list of route overrides
MaxOverrides == 2
\* largest limit of a rate plan
MaxPlanLimit == 3
\* number of requests the plan based limiter handles one after the other
NumSeq == 3

--------------------------------------------------------------------------
(* Program constants *)

MsPerSecond == 1000
MinuteMs == 60000
HourMs == 3600000
DayMs == 86400000

Reqs == 1..NumReq

\* values standing for JavaScript's undefined / NaN / "no expiry"
None == "none"
Undef == -1
NoExpiry == -1

\* The n-th instant of the clock: 00:58:59.000 of day 0, 00:59:00.000 (a new
\* minute), 01:00:00.000 (a new hour), the first millisecond of day 1, and
\* then every minute after that.
Instant(n) ==
    CASE n = 1 -> HourMs - MinuteMs - MsPerSecond
      [] n = 2 -> HourMs - MinuteMs
      [] n = 3 -> HourMs
      [] OTHER -> DayMs + (n - 4) * MinuteMs

Now == Instant(clk)

\* Math.ceil(a / b) for b > 0
CeilDiv(a, b) == -((-a) \div b)

Max(a, b) == IF a >= b THEN a ELSE b

Min(a, b) == IF a <= b THEN a ELSE b

--------------------------------------------------------------------------
(* The shared store (Redis) *)

RlKey(identifier, bucketStart) ==
    [ns |-> "rl", id |-> identifier, per |-> "-", start |-> bucketStart]

RedisCount(store, key) ==
    IF key \in DOMAIN store THEN store[key].count ELSE 0

RedisExp(store, key) ==
    IF key \in DOMAIN store THEN store[key].exp ELSE NoExpiry

\* faulty variant: the increment ignores the weight (INCR instead of INCRBY weight)
RedisIncrByOne(store, key, weight) ==
    [k \in DOMAIN store \cup {key} |->
        IF k = key THEN [count |-> RedisCount(store, key) + 1,
                         exp |-> RedisExp(store, key)]
        ELSE store[k]]

\* INCRBY key weight: atomic at the server; creates the key without expiry
RedisIncrBy(store, key, weight) ==
    [k \in DOMAIN store \cup {key} |->
        IF k = key THEN [count |-> RedisCount(store, key) + weight,
                         exp |-> RedisExp(store, key)]
        ELSE store[k]]

\* EXPIRE key ttl at instant t: sets the expiry of an existing key
RedisExpire(store, key, ttlSeconds, t) ==
    IF key \in DOMAIN store
    THEN [store EXCEPT ![key].exp = t + ttlSeconds * MsPerSecond]
    ELSE store

\* EXPIRE key ttl GT at instant t: sets the expiry only when the new expiry is
\* greater than the current one; a key without expiry counts as an infinite
\* expiry, so GT never sets an expiry on it
RedisExpireGT(store, key, ttlSeconds, t) ==
    IF key \in DOMAIN store
       /\ store[key].exp # NoExpiry
       /\ t + ttlSeconds * MsPerSecond > store[key].exp
    THEN [store EXCEPT ![key].exp = t + ttlSeconds * MsPerSecond]
    ELSE store

\* the keys Redis has evicted at instant t
RedisPurge(store, t) ==
    [k \in {x \in DOMAIN store : store[x].exp = NoExpiry \/ store[x].exp > t}
        |-> store[k]]

--------------------------------------------------------------------------
(* createRateLimiter *)

\* configurations of the limiter instance
Configs ==
    [windowMs : {MinuteMs},
     maxRequests : 1..MaxLimit,
     weight : 0..MaxWeight,
     identifierType : {"ip", "apiKey"}]

\* requests as the handler sees them: req.ip, x-forwarded-for, req.apiKeyId
Requests ==
    { [ip |-> "10.0.0.1", forwarded |-> None, apiKeyId |-> "k1"],
      [ip |-> None, forwarded |-> None, apiKeyId |-> None] }

\* const weight = config.weight || 1
Weight(c) == IF c.weight = 0 THEN 1 ELSE c.weight

getClientIp(req) ==
    IF req.ip # None THEN req.ip
    ELSE IF req.forwarded # None THEN req.forwarded
    ELSE "unknown"

\* the identifier of a request, None when resolution throws
Identifier(c, req) ==
    IF c.identifierType = "apiKey"
    THEN req.apiKeyId
    ELSE getClientIp(req)

BucketStart(now, windowMs) == (now \div windowMs) * windowMs

TtlSeconds(now, windowMs) ==
    CeilDiv(windowMs - (now - BucketStart(now, windowMs)), MsPerSecond)

\* faulty variant: the difference is not clamped
RemainingRaw(limit, count) ==
    IF count = Undef THEN Undef ELSE limit - count

\* Math.max(0, config.maxRequests - count); NaN (Undef) when count is undefined
Remaining(limit, count) ==
    IF count = Undef THEN Undef ELSE Max(0, limit - count)

\* faulty variant: the comparison is off by one
OverLimitGe(limit, count) == count # Undef /\ count >= limit

\* count > config.maxRequests; false when count is undefined
OverLimit(limit, count) == count # Undef /\ count > limit

NoResp == [out |-> "none", status |-> 0, code |-> "-",
           limit |-> 0, remaining |-> 0, reset |-> 0, weight |-> 0,
           retryAfter |-> 0, hasRetry |-> FALSE]

\* a connection: the 'trust proxy' setting of the application, the address of
\* the socket (None when it has none) and the entries of X-Forwarded-For
NoConn == [trust |-> "loopback", remote |-> None, xff |-> <<>>]

\* endpoint: the route the request is for, where routes are told apart;
\* conn: the connection it came on, where connections are told apart;
\* inst: the limiter instance that handled it, where there are several
RlIdle == [pc |-> "idle", identifier |-> None, now |-> 0, count |-> 0,
           resp |-> NoResp, endpoint |-> None, conn |-> NoConn, inst |-> 0]

\* the response the error handler writes for a RateLimitError
RateLimited(r) == [r EXCEPT !.out = "error", !.status = 429,
                            !.code = "RATE_LIMIT_EXCEEDED"]

\* the response the error handler writes for an error that is no AppError
InternalError(r) == [r EXCEPT !.out = "error", !.status = 500,
                              !.code = "INTERNAL_SERVER_ERROR"]

RlBucketKey(r) == RlKey(rl[r].identifier, BucketStart(rl[r].now, cfg.windowMs))

\* the handler up to its await: resolve the identifier, sample the clock,
\* queue INCRBY and EXPIRE on the pipeline
RLEnter(r, req) ==
    LET identifier == Identifier(cfg, req) IN
    IF identifier = None
    THEN rl' = [rl EXCEPT ![r].pc = "done",
                          ![r].resp = RateLimited(NoResp)]
    ELSE rl' = [rl EXCEPT ![r].pc = "incr",
                          ![r].identifier = identifier,
                          ![r].now = Now]

\* a request arrives at the handler
RLStart(r) ==
    /\ rl[r].pc = "idle"
    /\ \A q \in Reqs : q < r => rl[q].pc # "idle"
    /\ \E req \in Requests : RLEnter(r, req)
    /\ UNCHANGED <<clk, redisUp, dbUp, redisStore, dbUsage, cfg, notRl, redisHung, route>>

\* the server executes INCRBY key weight
RLIncr(r) ==
    /\ rl[r].pc = "incr"
    /\ redisUp /\ ~redisHung
    /\ redisStore' = RedisIncrBy(redisStore, RlBucketKey(r), Weight(cfg))
    /\ rl' = [rl EXCEPT ![r].pc = "expire",
                        ![r].count = RedisCount(redisStore', RlBucketKey(r))]
    /\ UNCHANGED <<clk, redisUp, dbUp, dbUsage, cfg, notRl, redisHung, route>>

\* the pipeline fails while the store is down: exec() rejects and the handler's
\* catch passes the error on
RLIncrReject(r) ==
    /\ rl[r].pc = "incr"
    /\ ~redisUp
    /\ rl' = [rl EXCEPT ![r].pc = "done", ![r].count = Undef,
                        ![r].resp = InternalError(NoResp)]
    /\ UNCHANGED <<clk, redisUp, dbUp, redisStore, dbUsage, cfg, notRl, redisHung, route>>

\* the pipeline fails while the store is down: exec() resolves with an error
\* entry per command and results[0][1] is undefined
RLIncrError(r) ==
    /\ rl[r].pc = "incr"
    /\ ~redisUp
    /\ rl' = [rl EXCEPT ![r].pc = "expire",
                        ![r].count = Undef]
    /\ UNCHANGED <<clk, redisUp, dbUp, redisStore, dbUsage, cfg, notRl, redisHung, route>>

\* the headers and the outcome computed after the await
RlRespond(c, now, count) ==
    LET bucketStart == BucketStart(now, c.windowMs)
        reset == bucketStart + c.windowMs
        base == [NoResp EXCEPT !.limit = c.maxRequests,
                               !.remaining = Remaining(c.maxRequests, count),
                               !.reset = reset,
                               !.weight = Weight(c)]
    IN  IF OverLimit(c.maxRequests, count)
        THEN RateLimited([base EXCEPT !.retryAfter = CeilDiv(reset - now, MsPerSecond),
                                      !.hasRetry = TRUE])
        ELSE [base EXCEPT !.out = "next"]

\* the server executes EXPIRE key ttl GT, the pipeline resolves and the
\* handler answers
RLExpire(r) ==
    /\ rl[r].pc = "expire"
    /\ (~redisUp \/ ~redisHung)
    /\ redisStore' =
         IF redisUp
         THEN RedisExpireGT(redisStore, RlBucketKey(r),
                            TtlSeconds(rl[r].now, cfg.windowMs), Now)
         ELSE redisStore
    /\ rl' = [rl EXCEPT ![r].pc = "done",
                        ![r].resp = RlRespond(cfg, rl[r].now, rl[r].count)]
    /\ UNCHANGED <<clk, redisUp, dbUp, dbUsage, cfg, notRl, redisHung, route>>

--------------------------------------------------------------------------
(* The environment *)

Tick ==
    /\ clk < NumInstants
    /\ clk' = clk + 1
    /\ redisStore' = RedisPurge(redisStore, Instant(clk + 1))
    /\ UNCHANGED <<redisUp, dbUp, dbUsage, handlers, redisHung, route>>

RedisFail ==
    /\ redisUp
    /\ redisUp' = FALSE
    /\ UNCHANGED <<clk, dbUp, redisStore, dbUsage, handlers, redisHung, route>>

RedisRecover ==
    /\ ~redisUp
    /\ redisUp' = TRUE
    /\ UNCHANGED <<clk, dbUp, redisStore, dbUsage, handlers, redisHung, route>>

\* the store stops replying while the connection stays open: the commands
\* sent from now on stay pending, the client sets no commandTimeout
RedisHang ==
    /\ redisUp
    /\ ~redisHung
    /\ redisHung' = TRUE
    /\ UNCHANGED <<clk, redisUp, dbUp, redisStore, dbUsage, handlers, route>>

--------------------------------------------------------------------------
(* The durable store (prisma): the Usage table *)

DbCount(usage, key) ==
    IF key \in DOMAIN usage THEN usage[key] ELSE 0

\* prisma.usage.updateMany({where, data: {requestCount: {increment: 1}}}):
\* increments the rows that match and creates none
DbUpdateMany(usage, key) ==
    IF key \in DOMAIN usage THEN [usage EXCEPT ![key] = @ + 1] ELSE usage

--------------------------------------------------------------------------
(* The plan based limiter: checkRateLimits, recordRequest *)

Periods == <<"MINUTE", "HOUR", "DAY">>

PeriodMs(period) ==
    CASE period = "MINUTE" -> MinuteMs
      [] period = "HOUR" -> HourMs
      [] OTHER -> DayMs

\* faulty variant: the instant is rounded to the nearest window start
getBucketTimestampNearest(period, t) ==
    (t + PeriodMs(period) \div 2) - ((t + PeriodMs(period) \div 2) % PeriodMs(period))

\* the start of the window of `period` that holds instant t (the process
\* runs in UTC)
getBucketTimestamp(period, t) == t - (t % PeriodMs(period))

getResetTime(period, t) == getBucketTimestamp(period, t) + PeriodMs(period)

UsageKey(apiKeyId, period, t) ==
    [ns |-> "usage", id |-> apiKeyId, per |-> period,
     start |-> getBucketTimestamp(period, t)]

\* plan.requestsPerMinute, plan.requestsPerHour, plan.requestsPerDay
PlanLimit(p, i) == p[i]

\* a RateLimitStatus, and with it the start of the window whose bucket was
\* read for it (0 when none was read)
NoStatus == [isAllowed |-> TRUE, limit |-> 0, remaining |-> 0, resetTime |-> 0,
             bucket |-> 0]

NoDecision == [isAllowed |-> TRUE, limit |-> 0, remaining |-> 0, resetTime |-> 0,
               retryAfter |-> 0, hasRetry |-> FALSE]

\* the status checkPeriodLimit returns for a period without limit
BypassStatus(t) ==
    [isAllowed |-> TRUE, limit |-> 0, remaining |-> 0, resetTime |-> t,
     bucket |-> 0]

\* the status checkPeriodLimit derives from the count of the bucket of
\* instant tBucket (bucket = getBucketTimestamp(period), a first new Date())
\* and from resetTime = getResetTime(period), which takes a second new Date()
\* at instant tReset
CountStatus(period, limit, count, tBucket, tReset) ==
    [isAllowed |-> count < limit,
     limit |-> limit,
     remaining |-> Max(0, limit - count),
     resetTime |-> getResetTime(period, tReset),
     bucket |-> getBucketTimestamp(period, tBucket)]

\* the statuses that are not allowed, by index
Denied(st) == {i \in 1..3 : ~st[i].isAllowed}

\* faulty variant: the periods are examined from the longest to the shortest
FirstDeniedLongest(st) == CHOOSE i \in Denied(st) : \A j \in Denied(st) : j <= i

\* the first status that is not allowed, in the order of the if statements
FirstDenied(st) == CHOOSE i \in Denied(st) : \A j \in Denied(st) : i <= j

\* faulty variant: the statuses are ordered by their limit
MostRestrictiveByLimit(st) ==
    CHOOSE i \in 1..3 :
        \A j \in 1..3 :
            \/ st[i].limit < st[j].limit
            \/ (st[i].limit = st[j].limit /\ i <= j)

\* [minuteStatus, hourStatus, dayStatus].sort((a, b) => a.remaining -
\* b.remaining)[0]: the sort is stable, so of equal remainings the first wins
MostRestrictive(st) ==
    CHOOSE i \in 1..3 :
        \A j \in 1..3 :
            \/ st[i].remaining < st[j].remaining
            \/ (st[i].remaining = st[j].remaining /\ i <= j)

\* the value checkRateLimits returns, computed at instant t
Decide(st, t) ==
    IF Denied(st) # {}
    THEN LET s == st[FirstDenied(st)] IN
         [isAllowed |-> FALSE, limit |-> s.limit, remaining |-> s.remaining,
          resetTime |-> s.resetTime,
          retryAfter |-> CeilDiv(s.resetTime - t, MsPerSecond),
          hasRetry |-> TRUE]
    ELSE LET s == st[MostRestrictive(st)] IN
         [isAllowed |-> TRUE, limit |-> s.limit, remaining |-> s.remaining,
          resetTime |-> s.resetTime, retryAfter |-> 0, hasRetry |-> FALSE]

\* at: the instant (as an index of the clock) of the request's last step;
\* the code that follows an await runs at that instant or later
PlIdle == [pc |-> "idle", at |-> 1, apiKeyId |-> None, per |-> 1,
           st |-> <<NoStatus, NoStatus, NoStatus>>, dec |-> NoDecision,
           tDec |-> 0, resp |-> NoResp]

\* the headers apiKeyRateLimitMiddleware sets from the decision
PlanHeaders(d) ==
    [NoResp EXCEPT !.limit = d.limit, !.remaining = d.remaining,
                   !.reset = d.resetTime]

\* the response to a denied request: Retry-After is status.retryAfter || 60
PlanDenied(d) ==
    RateLimited([PlanHeaders(d) EXCEPT
                   !.retryAfter = IF d.retryAfter = 0 THEN 60 ELSE d.retryAfter,
                   !.hasRetry = TRUE])

\* apiKeyRateLimitMiddleware up to its first await, for a request whose
\* req.apiKeyId is k; a request without req.apiKeyId is passed on at once
PLBegin(r, k) ==
    IF k = None
    THEN [pl EXCEPT ![r].pc = "done", ![r].at = clk, ![r].resp.out = "next"]
    ELSE [pl EXCEPT ![r].pc = "find", ![r].at = clk, ![r].apiKeyId = k]

\* the middleware mounted on its own: any request context
PLStart(r) ==
    /\ pl[r].pc = "idle"
    /\ \A q \in DOMAIN pl : q < r => pl[q].pc # "idle"
    /\ \E k \in {"k1", None} : pl' = PLBegin(r, k)
    /\ UNCHANGED <<clk, redisUp, dbUp, redisStore, dbUsage, notPl, redisHung, route>>

\* checkRateLimits: prisma.apiKey.findUnique with the plan
PLFind(r) ==
    /\ pl[r].pc = "find"
    /\ IF dbUp
       THEN pl' = [pl EXCEPT ![r].pc = "check", ![r].at = clk, ![r].per = 1]
       ELSE pl' = [pl EXCEPT ![r].pc = "done", ![r].at = clk,
                             ![r].resp = InternalError(NoResp)]
    /\ UNCHANGED <<clk, redisUp, dbUp, redisStore, dbUsage, notPl, redisHung, route>>

\* faulty variant: a denied request goes on to recordRequest
AfterStatusRecorded(r, status) ==
    LET st == [pl[r].st EXCEPT ![pl[r].per] = status]
        d == Decide(st, Now)
    IN  IF pl[r].per < 3
        THEN [pl EXCEPT ![r].st = st, ![r].at = clk, ![r].per = @ + 1]
        ELSE [pl EXCEPT ![r].st = st, ![r].at = clk, ![r].dec = d,
                        ![r].pc = "rec",
                        ![r].per = 1, ![r].tDec = Now,
                        ![r].resp = IF d.isAllowed THEN PlanHeaders(d)
                                    ELSE PlanDenied(d)]

\* what follows the status of a period: the next period, or, after the last
\* one, the decision, the headers and either the rejection or the start of
\* recordRequest, whose three incrementCounter calls compute their keys at once
AfterStatus(r, status) ==
    LET st == [pl[r].st EXCEPT ![pl[r].per] = status]
        d == Decide(st, Now)
    IN  IF pl[r].per < 3
        THEN [pl EXCEPT ![r].st = st, ![r].at = clk, ![r].per = @ + 1]
        ELSE IF ~d.isAllowed
        THEN [pl EXCEPT ![r].st = st, ![r].at = clk, ![r].dec = d,
                        ![r].pc = "done",
                        ![r].tDec = Now, ![r].resp = PlanDenied(d)]
        ELSE [pl EXCEPT ![r].st = st, ![r].at = clk, ![r].dec = d,
                        ![r].pc = "rec",
                        ![r].per = 1, ![r].tDec = Now,
                        ![r].resp = PlanHeaders(d)]

\* checkPeriodLimit of the period in turn: no limit, or the count read with
\* GET.  The call takes new Date() for the bucket and again for the reset
\* time, at instants between the request's last step and the reply to GET
PLCheck(r) ==
    /\ pl[r].pc = "check"
    /\ LET period == Periods[pl[r].per]
           limit == PlanLimit(plan, pl[r].per)
       IN  \E c1 \in pl[r].at..clk : \E c2 \in c1..clk :
           IF limit = 0
           THEN pl' = AfterStatus(r, BypassStatus(Instant(c1)))
           ELSE /\ redisUp /\ ~redisHung
                /\ pl' = AfterStatus(r,
                      CountStatus(period, limit,
                          RedisCount(redisStore,
                              UsageKey(pl[r].apiKeyId, period, Instant(c1))),
                          Instant(c1), Instant(c2)))
    /\ UNCHANGED <<clk, redisUp, dbUp, redisStore, dbUsage, notPl, redisHung, route>>

\* checkPeriodLimit when GET fails: the count of the Usage row, or the error
\* of the durable store, which nothing catches
PLCheckFallback(r) ==
    /\ pl[r].pc = "check"
    /\ PlanLimit(plan, pl[r].per) # 0
    /\ ~redisUp
    /\ LET period == Periods[pl[r].per]
           limit == PlanLimit(plan, pl[r].per)
       IN  \E c1 \in pl[r].at..clk : \E c2 \in c1..clk :
           IF dbUp
           THEN pl' = AfterStatus(r,
                      CountStatus(period, limit,
                          DbCount(dbUsage,
                              UsageKey(pl[r].apiKeyId, period, Instant(c1))),
                          Instant(c1), Instant(c2)))
           ELSE pl' = [pl EXCEPT ![r].pc = "done", ![r].at = clk,
                                 ![r].resp = InternalError(NoResp)]
    /\ UNCHANGED <<clk, redisUp, dbUp, redisStore, dbUsage, notPl, redisHung, route>>

\* faulty variant: the time to live is one second short
PlanTtlShort(period, t) ==
    Max(1, CeilDiv(getResetTime(period, t) - t, MsPerSecond) - 1)

\* ttl = Math.max(1, Math.ceil((resetTime - Date.now()) / 1000))
PlanTtl(period, t) ==
    Max(1, CeilDiv(getResetTime(period, t) - t, MsPerSecond))

\* faulty variant: a period without limit is not counted
IncrementCounterLimited(store, key, period, t, now) ==
    IF \E i \in 1..3 : Periods[i] = period /\ PlanLimit(plan, i) = 0
    THEN store
    ELSE RedisExpire(RedisIncrBy(store, key, 1), key, PlanTtl(period, t), now)

\* the pipeline of incrementCounter, queued at instant t and executed by the
\* server at instant now: INCR key, EXPIRE key ttl
IncrementCounter(store, key, period, t, now) ==
    RedisExpire(RedisIncrBy(store, key, 1), key, PlanTtl(period, t), now)

\* the end of an incrementCounter call: the next one, or next() after the last
AfterIncrement(r, threw) ==
    LET resp == IF threw THEN InternalError(NoResp) ELSE pl[r].resp IN
    IF pl[r].per < 3
    THEN [pl EXCEPT ![r].at = clk, ![r].per = @ + 1, ![r].resp = resp]
    ELSE [pl EXCEPT ![r].pc = "done", ![r].at = clk,
                    ![r].resp = IF resp.status = 500 THEN resp
                                ELSE [resp EXCEPT !.out = "next"]]

\* incrementCounter of the period in turn: the server executes INCR and EXPIRE
PLRecord(r) ==
    /\ pl[r].pc = "rec"
    /\ redisUp /\ ~redisHung
    /\ LET period == Periods[pl[r].per]
           key == UsageKey(pl[r].apiKeyId, period, pl[r].tDec)
       IN  /\ redisStore' = IncrementCounter(redisStore, key, period, pl[r].tDec, Now)
           /\ pl' = AfterIncrement(r, FALSE)
    /\ UNCHANGED <<clk, redisUp, dbUp, dbUsage, notPl, redisHung, route>>

\* incrementCounter when the pipeline rejects: updateMany on the Usage row, or
\* the error of the durable store, which rejects recordRequest
PLRecordFallback(r) ==
    /\ pl[r].pc = "rec"
    /\ ~redisUp
    /\ LET period == Periods[pl[r].per]
           key == UsageKey(pl[r].apiKeyId, period, pl[r].tDec)
       IN  IF dbUp
           THEN /\ dbUsage' = DbUpdateMany(dbUsage, key)
                /\ pl' = AfterIncrement(r, FALSE)
           ELSE /\ dbUsage' = dbUsage
                /\ pl' = AfterIncrement(r, TRUE)
    /\ UNCHANGED <<clk, redisUp, dbUp, redisStore, notPl, redisHung, route>>

\* incrementCounter when the pipeline resolves with an error entry per
\* command: nothing is thrown and nothing is counted
PLRecordError(r) ==
    /\ pl[r].pc = "rec"
    /\ ~redisUp
    /\ pl' = AfterIncrement(r, FALSE)
    /\ UNCHANGED <<clk, redisUp, dbUp, redisStore, dbUsage, notPl, redisHung, route>>

DbFail ==
    /\ dbUp
    /\ dbUp' = FALSE
    /\ UNCHANGED <<clk, redisUp, redisStore, dbUsage, handlers, redisHung, route>>

DbRecover ==
    /\ ~dbUp
    /\ dbUp' = TRUE
    /\ UNCHANGED <<clk, redisUp, redisStore, dbUsage, handlers, redisHung, route>>

--------------------------------------------------------------------------
(* The protected router: apiKeyAuthMiddleware, apiKeyRateLimitMiddleware,  *)
(* createRouteRateLimiter, then the route's handler                        *)

\* hashApiKey: the SHA-256 digest of the key
hashApiKey(key) == <<"sha256", key>>

\* the ApiKey table holding the key "rl_1" of user "u1"
KeyTable(status) ==
    [h \in {hashApiKey("rl_1")} |-> [id |-> "k1", userId |-> "u1", planId |-> "p1", status |-> status]]

\* validateApiKey: the user of an ACTIVE key, None otherwise
validateApiKey(keys, key) ==
    IF hashApiKey(key) \in DOMAIN keys /\ keys[hashApiKey(key)].status = "ACTIVE"
    THEN keys[hashApiKey(key)].userId
    ELSE None

\* the request context: the key the client sent and what the middlewares
\* attached to req
NoReq == [sent |-> None, userId |-> None, apiKey |-> None, apiKeyId |-> None]

ChainIdle == [pc |-> "idle", req |-> NoReq, status |-> 0]

\* what apiKeyAuthMiddleware attaches to req: userId and apiKey
Attach(req, keys, userId) ==
    [req EXCEPT !.userId = userId, !.apiKey = req.sent]

\* a request arrives with the key extractApiKey finds, if any
ChainStart(r) ==
    /\ chain[r].pc = "idle"
    /\ \A q \in Reqs : q < r => chain[q].pc # "idle"
    /\ \E sent \in {"rl_1", "rl_x", None} :
         chain' = [chain EXCEPT ![r].pc = "auth", ![r].req.sent = sent]
    /\ UNCHANGED <<clk, redisUp, dbUp, redisStore, dbUsage, cfg, rl, plan, pl, apiKeys, redisHung, route>>

\* apiKeyAuthMiddleware
ChainAuth(r) ==
    /\ chain[r].pc = "auth"
    /\ LET req == chain[r].req
           userId == IF req.sent = None THEN None
                     ELSE validateApiKey(apiKeys, req.sent)
       IN  IF userId = None
           THEN chain' = [chain EXCEPT ![r].pc = "done", ![r].status = 401]
           ELSE chain' = [chain EXCEPT ![r].pc = "limit",
                                       ![r].req = Attach(req, apiKeys, userId)]
    /\ UNCHANGED <<clk, redisUp, dbUp, redisStore, dbUsage, cfg, rl, plan, pl, apiKeys, redisHung, route>>

\* apiKeyRateLimitMiddleware is entered with the request context
ChainLimit(r) ==
    /\ chain[r].pc = "limit"
    /\ pl[r].pc = "idle"
    /\ pl' = PLBegin(r, chain[r].req.apiKeyId)
    /\ chain' = [chain EXCEPT ![r].pc = "limiting"]
    /\ UNCHANGED <<clk, redisUp, dbUp, redisStore, dbUsage, cfg, rl, plan, apiKeys, redisHung, route>>

\* apiKeyRateLimitMiddleware has answered: next() or the error
ChainLimited(r) ==
    /\ chain[r].pc = "limiting"
    /\ pl[r].pc = "done"
    /\ IF pl[r].resp.out = "next"
       THEN chain' = [chain EXCEPT ![r].pc = "route"]
       ELSE chain' = [chain EXCEPT ![r].pc = "done",
                                   ![r].status = pl[r].resp.status]
    /\ UNCHANGED <<clk, redisUp, dbUp, redisStore, dbUsage, cfg, rl, plan, pl, apiKeys, redisHung, route>>

\* the owner revokes the key
RevokeKey ==
    /\ \E h \in DOMAIN apiKeys :
         /\ apiKeys[h].status = "ACTIVE"
         /\ apiKeys' = [apiKeys EXCEPT ![h].status = "REVOKED"]
    /\ UNCHANGED <<clk, redisUp, dbUp, redisStore, dbUsage, cfg, rl, plan, pl, chain, redisHung, route>>

--------------------------------------------------------------------------
(* The route limiter: createRouteRateLimiter, getRouteLimit *)

\* req.path as the sequence of its pieces
Paths == { <<"/ping">>, <<"/data", "/1">>, <<"/other">> }

\* a RegExp without flags, by what it accepts: /^text$/ or /^text.*/
Patterns ==
    { [kind |-> "exact", text |-> <<"/ping">>],
      [kind |-> "prefix", text |-> <<"/data">>],
      [kind |-> "prefix", text |-> <<>>] }

\* pattern.test(path)
Test(pattern, path) ==
    IF pattern.kind = "exact"
    THEN path = pattern.text
    ELSE /\ Len(pattern.text) <= Len(path)
         /\ SubSeq(path, 1, Len(pattern.text)) = pattern.text

\* the RouteRateLimit entries; a limit of 0 stands for one left undefined
RouteEntries ==
    [pattern : Patterns, requestsPerMinute : 0..MaxRouteLimit]

\* the lists of at most MaxOverrides entries
RouteLists == UNION { [1..n -> RouteEntries] : n \in 0..MaxOverrides }

\* faulty variant: the last entry that matches
getRouteLimitLast(path, limits) ==
    LET hits == {i \in DOMAIN limits : Test(limits[i].pattern, path)} IN
    IF hits = {} THEN 0 ELSE CHOOSE i \in hits : \A j \in hits : j <= i

\* limits.find((limit) => limit.pattern.test(path)): the index of the entry
\* found, 0 for undefined
getRouteLimit(path, limits) ==
    LET hits == {i \in DOMAIN limits : Test(limits[i].pattern, path)} IN
    IF hits = {} THEN 0 ELSE CHOOSE i \in hits : \A j \in hits : i <= j

\* cacheKey:minute
RouteKey(apiKeyId, path) == <<apiKeyId, path, "minute">>

RtIdle == [pc |-> "idle", apiKeyId |-> None, path |-> <<>>, matched |-> 0,
           now |-> 0, count |-> 0, headers |-> FALSE, resp |-> NoResp]

\* a request the route limiter passes on without headers
RtPassed(k, path, m, now) ==
    [RtIdle EXCEPT !.pc = "done", !.apiKeyId = k, !.path = path,
                   !.matched = m, !.now = now, !.resp.out = "next"]

\* the handler of createRouteRateLimiter for a request of key k to path at
\* instant now: the cache and the request's outcome
RouteHandle(cache, limits, k, path, now) ==
    LET m == getRouteLimit(path, limits)
        rpm == IF m = 0 THEN 0 ELSE limits[m].requestsPerMinute
        key == RouteKey(k, path)
        fresh == key \notin DOMAIN cache \/ cache[key].resetTime < now
        rec == IF fresh
               THEN [count |-> 1, resetTime |-> now + MinuteMs]
               ELSE [cache[key] EXCEPT !.count = @ + 1]
        stored == [x \in DOMAIN cache \cup {key} |->
                      IF x = key THEN rec ELSE cache[x]]
        seen == [RtPassed(k, path, m, now) EXCEPT !.count = rec.count]
    IN  IF k = None
        THEN [cache |-> cache, rt |-> RtPassed(k, path, 0, now)]
        ELSE IF rpm = 0
        THEN [cache |-> cache, rt |-> RtPassed(k, path, m, now)]
        ELSE IF ~fresh /\ rec.count > rpm
        THEN [cache |-> stored,
              rt |-> [seen EXCEPT
                        !.resp = RateLimited([NoResp EXCEPT
                            !.retryAfter = CeilDiv(rec.resetTime - now, MsPerSecond),
                            !.hasRetry = TRUE])]]
        ELSE [cache |-> stored,
              rt |-> [seen EXCEPT
                        !.headers = TRUE,
                        !.resp.limit = rpm,
                        !.resp.remaining = Max(0, rpm - rec.count),
                        !.resp.reset = rec.resetTime]]

\* the middleware runs without awaiting anything: one step per request
RouteLimit(r) ==
    /\ rt[r].pc = "idle"
    /\ \A q \in Reqs : q < r => rt[q].pc # "idle"
    /\ \E k \in {"k1", None} : \E path \in Paths :
        LET res == RouteHandle(routeLimitCache, routeLimits, k, path, Now) IN
        /\ routeLimitCache' = res.cache
        /\ rt' = [rt EXCEPT ![r] = res.rt]
    /\ UNCHANGED <<clk, redisUp, dbUp, redisHung, redisStore, dbUsage,
                   handlers, routeLimits, keyed, procCache, ratePlans, ops, proc, cch>>

--------------------------------------------------------------------------
(* Specification of one createRateLimiter instance *)

\* the stores and the clock when the process starts
\* number of process instances of the gateway
NumProcs == 2

Procs == 1..NumProcs

\* the Map of every process instance is empty at its start
NoProcCache == [p \in Procs |-> <<>>]

\* number of calls of the API key service in a behaviour
NumOps == 2

OpIds == 1..NumOps

\* a call of the API key service that has not been made: its arguments
\* (userId, keyId), its locals (planId, the id of the row it created), the
\* number of ACTIVE keys of the user when it was made and the number of
\* ACTIVE rows its update turned REVOKED
OpIdle ==
    [kind |-> "-", pc |-> "idle", userId |-> None, keyId |-> 0, planId |-> 0,
     newId |-> 0, before |-> 0, took |-> 0, err |-> None]

NoOps == [o \in OpIds |-> OpIdle]

\* the RatePlan table without rows
NoPlans == <<>>

\* the process while it serves: the listener is up with n requests in
\* flight, prisma and the Redis client are connected, no signal has come
\* (exit = Undef: the process runs; since: ms since the first signal)
Serving(n) ==
    [server |-> "listening", conns |-> n, cbs |-> 0, db |-> "open",
     redis |-> "open", signals |-> 0, since |-> 0, exit |-> Undef,
     log |-> <<>>]

\* a request cacheResponse has not seen: the credential it carries is the
\* value of x-api-key, or of Authorization without 'Bearer ', as a sequence
\* of pieces of text, empty when it carries none
CrIdle ==
    [pc |-> "idle", method |-> "-", url |-> <<>>, cred |-> <<>>,
     patched |-> FALSE, hit |-> FALSE, status |-> 0, body |-> <<>>]

\* nothing is cached and no request has come
NoCache == [store |-> <<>>, rq |-> [r \in Reqs |-> CrIdle]]

\* the keys of an increment that has not run
NoKey == [ns |-> None, id |-> None, per |-> "-", start |-> 0]

KeyIdle(t) == [t |-> t, done |-> FALSE, rl |-> NoKey,
               usage |-> [i \in 1..3 |-> NoKey]]

\* no increment is examined
NotKeyed == [j \in Reqs |-> KeyIdle(0)]

InitEnv ==
    /\ clk = 1
    /\ redisUp = TRUE
    /\ dbUp = TRUE
    /\ redisHung = FALSE
    /\ redisStore = <<>>
    /\ dbUsage = <<>>
    /\ apiKeys = KeyTable("ACTIVE")
    /\ routeLimitCache = <<>>
    /\ rt = [r \in Reqs |-> RtIdle]

InitBase ==
    /\ InitEnv
    /\ rl = [r \in Reqs |-> RlIdle]
    /\ pl = [r \in Reqs |-> PlIdle]
    /\ chain = [r \in Reqs |-> ChainIdle]

NoPlan == <<0, 0, 0>>

NoConfig == [windowMs |-> MinuteMs, maxRequests |-> 1, weight |-> 0,
             identifierType |-> "ip"]

Init ==
    /\ InitBase
    /\ cfg \in Configs
    /\ plan = NoPlan
    /\ routeLimits = <<>>
    /\ keyed = NotKeyed
    /\ procCache = NoProcCache
    /\ ratePlans = NoPlans
    /\ ops = NoOps
    /\ proc = Serving(0)
    /\ cch = NoCache

Next ==
    \/ \E r \in Reqs : RLStart(r)
    \/ \E r \in Reqs : RLIncr(r)
    \/ \E r \in Reqs : RLIncrReject(r)
    \/ \E r \in Reqs : RLIncrError(r)
    \/ \E r \in Reqs : RLExpire(r)
    \/ Tick
    \/ RedisFail
    \/ RedisRecover

Spec == Init /\ [][Next]_vars

--------------------------------------------------------------------------
(* Specification of one createRateLimiter instance in front of a store     *)
(* that stays connected and may stop replying.  A pipeline the store can   *)
(* answer is answered in the end; nothing in the client bounds the wait    *)
(* for a reply (no commandTimeout, maxRetriesPerRequest: null)             *)

NextHang ==
    \/ \E r \in Reqs : RLStart(r)
    \/ \E r \in Reqs : RLIncr(r)
    \/ \E r \in Reqs : RLExpire(r)
    \/ Tick
    \/ RedisHang

FairHang ==
    \A r \in Reqs : WF_vars(RLIncr(r)) /\ WF_vars(RLExpire(r))

SpecHang == Init /\ [][NextHang]_vars /\ FairHang

--------------------------------------------------------------------------
(* Specification of the plan based limiter under concurrent requests, both *)
(* stores healthy                                                          *)

\* the plans of the concurrent runs
Plans == { <<1, 2, 2>>, <<0, 1, 2>> }

InitPlan ==
    /\ InitBase
    /\ cfg = NoConfig
    /\ plan \in Plans
    /\ routeLimits = <<>>
    /\ keyed = NotKeyed
    /\ procCache = NoProcCache
    /\ ratePlans = NoPlans
    /\ ops = NoOps
    /\ proc = Serving(0)
    /\ cch = NoCache

NextPlan ==
    \/ \E r \in Reqs : PLStart(r)
    \/ \E r \in Reqs : PLFind(r)
    \/ \E r \in Reqs : PLCheck(r)
    \/ \E r \in Reqs : PLRecord(r)
    \/ Tick

SpecPlan == InitPlan /\ [][NextPlan]_vars

--------------------------------------------------------------------------
(* Specification of the plan based limiter under concurrent requests and   *)
(* failures of both stores                                                 *)

NextOutage ==
    \/ \E r \in Reqs : PLStart(r)
    \/ \E r \in Reqs : PLFind(r)
    \/ \E r \in Reqs : PLCheck(r)
    \/ \E r \in Reqs : PLCheckFallback(r)
    \/ \E r \in Reqs : PLRecord(r)
    \/ \E r \in Reqs : PLRecordFallback(r)
    \/ \E r \in Reqs : PLRecordError(r)
    \/ Tick
    \/ RedisFail
    \/ RedisRecover
    \/ DbFail
    \/ DbRecover

SpecOutage == InitPlan /\ [][NextOutage]_vars

--------------------------------------------------------------------------
(* Specification of the plan based limiter handling one request after the  *)
(* other, for every plan with limits up to MaxPlanLimit                    *)

\* a request starts when no other request is being handled
PLStartNext(r) ==
    /\ \A q \in DOMAIN pl : pl[q].pc \in {"idle", "done"}
    /\ PLStart(r)

InitEval ==
    /\ InitEnv
    /\ rl = [r \in Reqs |-> RlIdle]
    /\ pl = [r \in 1..NumSeq |-> PlIdle]
    /\ chain = [r \in Reqs |-> ChainIdle]
    /\ cfg = NoConfig
    /\ plan \in [1..3 -> 0..MaxPlanLimit]
    /\ routeLimits = <<>>
    /\ keyed = NotKeyed
    /\ procCache = NoProcCache
    /\ ratePlans = NoPlans
    /\ ops = NoOps
    /\ proc = Serving(0)
    /\ cch = NoCache

NextEval ==
    \/ \E r \in 1..NumSeq : PLStartNext(r)
    \/ \E r \in 1..NumSeq : PLFind(r)
    \/ \E r \in 1..NumSeq : PLCheck(r)
    \/ \E r \in 1..NumSeq : PLRecord(r)
    \/ Tick

SpecEval == InitEval /\ [][NextEval]_vars

--------------------------------------------------------------------------
(* Specification of the plan based limiter handling one request after the  *)
(* other, the shared store failing and recovering, the durable store       *)
(* failing for good                                                        *)

NextDenied ==
    \/ \E r \in Reqs : PLStartNext(r)
    \/ \E r \in Reqs : PLFind(r)
    \/ \E r \in Reqs : PLCheck(r)
    \/ \E r \in Reqs : PLCheckFallback(r)
    \/ \E r \in Reqs : PLRecord(r)
    \/ \E r \in Reqs : PLRecordFallback(r)
    \/ \E r \in Reqs : PLRecordError(r)
    \/ Tick
    \/ RedisFail
    \/ RedisRecover
    \/ DbFail

SpecDenied == InitPlan /\ [][NextDenied]_vars

--------------------------------------------------------------------------
(* Specification of the plan based limiter while the shared store is down  *)
(* and the durable store is healthy, one request after the other; the      *)
(* pipeline of incrementCounter rejects, so that its catch runs            *)

InitFallback ==
    /\ clk = 1
    /\ redisUp = FALSE
    /\ dbUp = TRUE
    /\ redisHung = FALSE
    /\ redisStore = <<>>
    /\ dbUsage = <<>>
    /\ apiKeys = KeyTable("ACTIVE")
    /\ routeLimitCache = <<>>
    /\ rt = [r \in Reqs |-> RtIdle]
    /\ rl = [r \in Reqs |-> RlIdle]
    /\ pl = [r \in 1..NumSeq |-> PlIdle]
    /\ chain = [r \in Reqs |-> ChainIdle]
    /\ cfg = NoConfig
    /\ plan \in [1..3 -> 0..MaxPlanLimit]
    /\ routeLimits = <<>>
    /\ keyed = NotKeyed
    /\ procCache = NoProcCache
    /\ ratePlans = NoPlans
    /\ ops = NoOps
    /\ proc = Serving(0)
    /\ cch = NoCache

NextFallback ==
    \/ \E r \in 1..NumSeq : PLStartNext(r)
    \/ \E r \in 1..NumSeq : PLFind(r)
    \/ \E r \in 1..NumSeq : PLCheck(r)
    \/ \E r \in 1..NumSeq : PLCheckFallback(r)
    \/ \E r \in 1..NumSeq : PLRecordFallback(r)
    \/ Tick

SpecFallback == InitFallback /\ [][NextFallback]_vars

--------------------------------------------------------------------------
(* Specification of the route limiter, for every list of overrides up to   *)
(* MaxOverrides entries                                                    *)

InitRoute ==
    /\ InitBase
    /\ cfg = NoConfig
    /\ plan = NoPlan
    /\ routeLimits \in RouteLists
    /\ keyed = NotKeyed
    /\ procCache = NoProcCache
    /\ ratePlans = NoPlans
    /\ ops = NoOps
    /\ proc = Serving(0)
    /\ cch = NoCache

NextRoute ==
    \/ \E r \in Reqs : RouteLimit(r)
    \/ Tick

SpecRoute == InitRoute /\ [][NextRoute]_vars

\* createRouteRateLimiter in the chain of the protected router: it reads
\* req.apiKeyId and req.path of the request and passes it on to the handler or
\* rejects it
ChainRoute(r) ==
    /\ chain[r].pc = "route"
    /\ \E path \in Paths :
        LET res == RouteHandle(routeLimitCache, routeLimits,
                               chain[r].req.apiKeyId, path, Now) IN
        /\ routeLimitCache' = res.cache
        /\ rt' = [rt EXCEPT ![r] = res.rt]
        /\ chain' = IF res.rt.resp.out = "next"
                    THEN [chain EXCEPT ![r].pc = "handler"]
                    ELSE [chain EXCEPT ![r].pc = "done",
                                       ![r].status = res.rt.resp.status]
    /\ UNCHANGED <<clk, redisUp, dbUp, redisHung, redisStore, dbUsage, cfg, rl,
                   plan, pl, apiKeys, routeLimits, keyed, procCache, ratePlans, ops, proc, cch>>

--------------------------------------------------------------------------
(* Specification of the route limiter with overrides that limit the hour *)

\* RouteRateLimit entries that carry requestsPerHour next to
\* requestsPerMinute (0 stands for a limit left undefined)
HourlyEntries ==
    [pattern : Patterns, requestsPerMinute : 0..MaxRouteLimit,
     requestsPerHour : 1..MaxRouteLimit]

InitRouteHour ==
    /\ InitBase
    /\ cfg = NoConfig
    /\ plan = NoPlan
    /\ routeLimits \in [1..1 -> HourlyEntries]
    /\ keyed = NotKeyed
    /\ procCache = NoProcCache
    /\ ratePlans = NoPlans
    /\ ops = NoOps
    /\ proc = Serving(0)
    /\ cch = NoCache

SpecRouteHour == InitRouteHour /\ [][NextRoute]_vars

--------------------------------------------------------------------------
(* Specification of the route limiter in several process instances *)

\* the handler of createRouteRateLimiter in process instance p, on the Map of
\* that instance
RouteLimitOn(r, p) ==
    /\ rt[r].pc = "idle"
    /\ \A q \in Reqs : q < r => rt[q].pc # "idle"
    /\ \E path \in Paths :
        LET res == RouteHandle(procCache[p], routeLimits, "k1", path, Now) IN
        /\ procCache' = [procCache EXCEPT ![p] = res.cache]
        /\ rt' = [rt EXCEPT ![r] = res.rt]
    /\ UNCHANGED <<clk, redisUp, dbUp, redisHung, redisStore, dbUsage,
                   handlers, routeLimits, routeLimitCache, keyed,
                   ratePlans, ops, proc, cch>>

InitProcs ==
    /\ InitBase
    /\ cfg = NoConfig
    /\ plan = NoPlan
    /\ routeLimits \in [1..1 -> RouteEntries]
    /\ keyed = NotKeyed
    /\ procCache = NoProcCache
    /\ ratePlans = NoPlans
    /\ ops = NoOps
    /\ proc = Serving(0)
    /\ cch = NoCache

NextProcs ==
    \/ \E r \in Reqs : \E p \in Procs : RouteLimitOn(r, p)
    \/ Tick

SpecProcs == InitProcs /\ [][NextProcs]_vars

--------------------------------------------------------------------------
(* Specification of the route limiter with its periodic sweep, next to a   *)
(* reference Map that is never swept                                       *)

\* number of instants the clock visits while the sweep runs: the records of
\* the first two instants have ended at the instants after the third
NumSweepInstants == 3

\* faulty variant: the sweep takes the records whose window ends now
SweptEarly(cache, now) ==
    [key \in {x \in DOMAIN cache : ~(cache[x].resetTime <= now)}
        |-> cache[key]]

\* the Map after the loop of cleanupRouteLimitCache at instant now: the
\* entries with record.resetTime < now are deleted
Swept(cache, now) ==
    [key \in {x \in DOMAIN cache : ~(cache[x].resetTime < now)}
        |-> cache[key]]

\* the callback of setInterval
cleanupRouteLimitCache ==
    /\ routeLimitCache' = Swept(routeLimitCache, Now)
    /\ UNCHANGED <<clk, redisUp, dbUp, redisHung, redisStore, dbUsage,
                   handlers, routeLimits, rt, keyed, procCache, ratePlans,
                   ops, proc, cch>>

\* the handler of createRouteRateLimiter on the Map of the module, and the
\* same request applied to the reference Map procCache[1]
RouteLimitBoth(r) ==
    /\ rt[r].pc = "idle"
    /\ \A q \in Reqs : q < r => rt[q].pc # "idle"
    /\ \E k \in {"k1", None} : \E path \in Paths :
        LET res == RouteHandle(routeLimitCache, routeLimits, k, path, Now)
            ref == RouteHandle(procCache[1], routeLimits, k, path, Now)
        IN  /\ routeLimitCache' = res.cache
            /\ procCache' = [procCache EXCEPT ![1] = ref.cache]
            /\ rt' = [rt EXCEPT ![r] = res.rt]
    /\ UNCHANGED <<clk, redisUp, dbUp, redisHung, redisStore, dbUsage,
                   handlers, routeLimits, keyed, ratePlans, ops, proc, cch>>

\* Date.now() advances
SweepTick ==
    /\ clk < NumSweepInstants
    /\ clk' = clk + 1
    /\ UNCHANGED <<redisUp, dbUp, redisStore, dbUsage, handlers, redisHung,
                   route>>

NextSweep ==
    \/ \E r \in Reqs : RouteLimitBoth(r)
    \/ cleanupRouteLimitCache
    \/ SweepTick

SpecSweep == InitProcs /\ [][NextSweep]_vars

--------------------------------------------------------------------------
(* Specification of the auth routes behind authRateLimiter *)

\* number of requests to the gateway in a behaviour of the auth routes
NumAuthReq == 7

AuthReqs == 1..NumAuthReq

\* authRateLimiter: windowMs 15 * 60 * 1000, maxRequests 5, by IP
AuthMaxRequests == 5

\* faulty variant: one attempt more per window
AuthConfigLoose ==
    [windowMs |-> 15 * MinuteMs, maxRequests |-> AuthMaxRequests + 1,
     weight |-> 0, identifierType |-> "ip"]

AuthConfig == [windowMs |-> 15 * MinuteMs, maxRequests |-> AuthMaxRequests,
               weight |-> 0, identifierType |-> "ip"]

\* the routes behind authRateLimiter
AuthEndpoints == {"/register", "/login"}

\* the routes a request can be for: those of the auth router and one other
Endpoints == AuthEndpoints \cup {"/health"}

\* the requests of one client
AuthRequest == [ip |-> "10.0.0.1", forwarded |-> None, apiKeyId |-> None]

\* a request arrives, after the one before it was answered: one for
\* /register or /login enters authRateLimiter, one for another route goes to
\* its handler without passing a createRateLimiter instance
AuthArrive(r) ==
    /\ rl[r].pc = "idle"
    /\ \A q \in AuthReqs : q < r => rl[q].pc = "done"
    /\ IF rl[r].endpoint \in AuthEndpoints
       THEN RLEnter(r, AuthRequest)
       ELSE rl' = [rl EXCEPT ![r].pc = "done", ![r].resp.out = "next"]
    /\ UNCHANGED <<clk, redisUp, dbUp, redisStore, dbUsage, cfg, notRl, redisHung, route>>

InitAuth ==
    /\ InitEnv
    /\ rl \in [AuthReqs -> {[RlIdle EXCEPT !.endpoint = e] : e \in Endpoints}]
    /\ pl = [r \in Reqs |-> PlIdle]
    /\ chain = [r \in Reqs |-> ChainIdle]
    /\ cfg = AuthConfig
    /\ plan = NoPlan
    /\ routeLimits = <<>>
    /\ keyed = NotKeyed
    /\ procCache = NoProcCache
    /\ ratePlans = NoPlans
    /\ ops = NoOps
    /\ proc = Serving(0)
    /\ cch = NoCache

NextAuth ==
    \/ \E r \in AuthReqs : AuthArrive(r)
    \/ \E r \in AuthReqs : RLIncr(r)
    \/ \E r \in AuthReqs : RLExpire(r)
    \/ Tick

SpecAuth == InitAuth /\ [][NextAuth]_vars

--------------------------------------------------------------------------
(* The API key service: createApiKey, revokeApiKey, regenerateApiKey,      *)
(* deleteApiKey over the ApiKey and RatePlan tables.  A call yields at     *)
(* every await, so the steps of concurrent calls interleave.               *)

\* the rows of the User table; the service never changes them
Users == {"u1", "u2"}

\* the id of the rows a table holds at the start; call o gives id o to the
\* row it creates
SeedId == NumOps + 1

\* req.params.keyId
KeyIds == 1..SeedId

Kinds == {"create", "revoke", "regenerate", "delete"}

\* generateApiKey in call o: the o-th draw of 24 random bytes
generateApiKey(o) == o

\* the rows of the ApiKey table with a given id (the primary key)
RowsById(keys, id) == {h \in DOMAIN keys : keys[h].id = id}

\* prisma.apiKey.findUnique({ where: { id } }); called where a row exists
findUnique(keys, id) == keys[CHOOSE h \in RowsById(keys, id) : TRUE]

\* an update that flips the status of the row
UpdateToggled(keys, id) ==
    [h \in DOMAIN keys |->
        IF keys[h].id = id
        THEN [keys[h] EXCEPT !.status = IF @ = "ACTIVE" THEN "REVOKED"
                                        ELSE "ACTIVE"]
        ELSE keys[h]]

\* prisma.apiKey.update({ where: { id }, data: { status: 'REVOKED' } })
UpdateRevoked(keys, id) ==
    [h \in DOMAIN keys |->
        IF keys[h].id = id THEN [keys[h] EXCEPT !.status = "REVOKED"]
        ELSE keys[h]]

\* prisma.apiKey.delete({ where: { id } })
DeleteRow(keys, id) ==
    [h \in DOMAIN keys \ RowsById(keys, id) |-> keys[h]]

\* prisma.apiKey.create: a row with status ACTIVE under the hash of the key
CreateRow(keys, id, userId, planId, key) ==
    [h \in DOMAIN keys \cup {hashApiKey(key)} |->
        IF h = hashApiKey(key)
        THEN [id |-> id, userId |-> userId, planId |-> planId,
              status |-> "ACTIVE"]
        ELSE keys[h]]

\* the rows of the RatePlan table with a given name
PlansNamed(plans, name) ==
    {i \in DOMAIN plans : plans[i].name = name}

\* the ACTIVE rows of a user
ActiveOf(keys, userId) ==
    {h \in DOMAIN keys : keys[h].userId = userId /\ keys[h].status = "ACTIVE"}

\* what the calls of the service leave alone
notService ==
    <<clk, redisUp, dbUp, redisHung, redisStore, dbUsage, cfg, rl, plan, pl,
      chain, routeLimits, routeLimitCache, rt, keyed, procCache, proc,
      cch>>

Fail(o, err) == [ops EXCEPT ![o].pc = "failed", ![o].err = err]

\* a controller calls createApiKey(userId), or revokeApiKey,
\* regenerateApiKey or deleteApiKey(userId, keyId)
OpCall(o) ==
    /\ ops[o].pc = "idle"
    /\ \A q \in OpIds : q < o => ops[q].pc # "idle"
    /\ \E kind \in Kinds : \E u \in Users : \E k \in KeyIds \cup {0} :
        /\ (kind = "create") <=> (k = 0)
        /\ ops' = [ops EXCEPT ![o] =
                     [OpIdle EXCEPT !.kind = kind, !.userId = u, !.keyId = k,
                                    !.before =
                                       Cardinality(ActiveOf(apiKeys, u)),
                                    !.pc = IF kind = "create" THEN "user"
                                           ELSE "find"]]
    /\ UNCHANGED <<apiKeys, ratePlans, notService>>

\* createApiKey: prisma.user.findUnique, then the branch on planId
OpUser(o) ==
    /\ ops[o].pc = "user"
    /\ ops' = IF ops[o].userId \notin Users THEN Fail(o, "NotFound")
              ELSE IF ops[o].planId = 0
              THEN [ops EXCEPT ![o].pc = "findPlan"]
              ELSE [ops EXCEPT ![o].pc = "insert"]
    /\ UNCHANGED <<apiKeys, ratePlans, notService>>

\* createApiKey: prisma.ratePlan.findFirst({ where: { name: 'free' } })
OpFindPlan(o) ==
    /\ ops[o].pc = "findPlan"
    /\ LET free == PlansNamed(ratePlans, "free") IN
       ops' = IF free = {}
              THEN [ops EXCEPT ![o].pc = "createPlan"]
              ELSE [ops EXCEPT ![o].pc = "insert",
                     ![o].planId =
                        ratePlans[CHOOSE i \in free : \A j \in free : i <= j].id]
    /\ UNCHANGED <<apiKeys, ratePlans, notService>>

\* createApiKey: prisma.ratePlan.create({ data: { name: 'free', ... } });
\* the unique index RatePlan_name_key rejects a second row of that name
OpCreatePlan(o) ==
    /\ ops[o].pc = "createPlan"
    /\ IF PlansNamed(ratePlans, "free") # {}
       THEN /\ ops' = Fail(o, "P2002")
            /\ UNCHANGED ratePlans
       ELSE /\ ratePlans' = Append(ratePlans, [id |-> o, name |-> "free"])
            /\ ops' = [ops EXCEPT ![o].pc = "insert", ![o].planId = o]
    /\ UNCHANGED <<apiKeys, notService>>

\* createApiKey: generateApiKey, hashApiKey, prisma.apiKey.create
OpInsert(o) ==
    /\ ops[o].pc = "insert"
    /\ apiKeys' = CreateRow(apiKeys, o, ops[o].userId, ops[o].planId,
                            generateApiKey(o))
    /\ ops' = [ops EXCEPT ![o].pc = "ok", ![o].newId = o]
    /\ UNCHANGED <<ratePlans, notService>>

\* faulty variant: the row is not compared with the caller
OpFindUnchecked(o) ==
    /\ ops[o].pc = "find"
    /\ ops' = IF RowsById(apiKeys, ops[o].keyId) = {}
              THEN Fail(o, "NotFound")
              ELSE [ops EXCEPT
                      ![o].planId = findUnique(apiKeys, ops[o].keyId).planId,
                      ![o].pc = IF ops[o].kind = "delete" THEN "delete"
                                ELSE "update"]
    /\ UNCHANGED <<apiKeys, ratePlans, notService>>

\* revokeApiKey, regenerateApiKey, deleteApiKey: findUnique by id and the
\* checks on the row
OpFind(o) ==
    /\ ops[o].pc = "find"
    /\ ops' = IF RowsById(apiKeys, ops[o].keyId) = {}
              THEN Fail(o, "NotFound")
              ELSE IF findUnique(apiKeys, ops[o].keyId).userId # ops[o].userId
              THEN Fail(o, "Unauthorized")
              ELSE [ops EXCEPT
                      ![o].planId = findUnique(apiKeys, ops[o].keyId).planId,
                      ![o].pc = IF ops[o].kind = "delete" THEN "delete"
                                ELSE "update"]
    /\ UNCHANGED <<apiKeys, ratePlans, notService>>

\* revokeApiKey, regenerateApiKey: the update to REVOKED; regenerateApiKey
\* goes on to createApiKey(userId, apiKey.planId)
OpUpdate(o) ==
    /\ ops[o].pc = "update"
    /\ IF RowsById(apiKeys, ops[o].keyId) = {}
       THEN /\ ops' = Fail(o, "P2025")
            /\ UNCHANGED apiKeys
       ELSE /\ apiKeys' = UpdateRevoked(apiKeys, ops[o].keyId)
            /\ ops' = [ops EXCEPT
                         ![o].took =
                            IF findUnique(apiKeys, ops[o].keyId).status = "ACTIVE"
                            THEN 1 ELSE 0,
                         ![o].pc = IF ops[o].kind = "revoke" THEN "ok"
                                   ELSE "user"]
    /\ UNCHANGED <<ratePlans, notService>>

\* deleteApiKey: prisma.apiKey.delete
OpDelete(o) ==
    /\ ops[o].pc = "delete"
    /\ IF RowsById(apiKeys, ops[o].keyId) = {}
       THEN /\ ops' = Fail(o, "P2025")
            /\ UNCHANGED apiKeys
       ELSE /\ apiKeys' = DeleteRow(apiKeys, ops[o].keyId)
            /\ ops' = [ops EXCEPT ![o].pc = "ok"]
    /\ UNCHANGED <<ratePlans, notService>>

\* the tables at the start: empty, or the 'free' plan and an ACTIVE key of
\* user u1 on it
SeedPlans == <<[id |-> SeedId, name |-> "free"]>>

SeedKeys == CreateRow(<<>>, SeedId, "u1", SeedId, generateApiKey(SeedId))

InitService ==
    /\ clk = 1
    /\ redisUp = TRUE
    /\ dbUp = TRUE
    /\ redisHung = FALSE
    /\ redisStore = <<>>
    /\ dbUsage = <<>>
    /\ routeLimitCache = <<>>
    /\ rt = [r \in Reqs |-> RtIdle]
    /\ rl = [r \in Reqs |-> RlIdle]
    /\ pl = [r \in Reqs |-> PlIdle]
    /\ chain = [r \in Reqs |-> ChainIdle]
    /\ cfg = NoConfig
    /\ plan = NoPlan
    /\ routeLimits = <<>>
    /\ keyed = NotKeyed
    /\ procCache = NoProcCache
    /\ \/ ratePlans = NoPlans /\ apiKeys = <<>>
       \/ ratePlans = SeedPlans /\ apiKeys = SeedKeys
    /\ ops = NoOps
    /\ proc = Serving(0)
    /\ cch = NoCache

NextService ==
    \/ \E o \in OpIds : OpCall(o)
    \/ \E o \in OpIds : OpUser(o)
    \/ \E o \in OpIds : OpFindPlan(o)
    \/ \E o \in OpIds : OpCreatePlan(o)
    \/ \E o \in OpIds : OpInsert(o)
    \/ \E o \in OpIds : OpFind(o)
    \/ \E o \in OpIds : OpUpdate(o)
    \/ \E o \in OpIds : OpDelete(o)

SpecService == InitService /\ [][NextService]_vars

--------------------------------------------------------------------------
(* The server process: the handlers of SIGTERM and SIGINT (shutdown)       *)

\* the delay of the timer that forces the exit, in ms
ForceExitMs == 10000

\* signals delivered to the process in a behaviour
NumSignals == 2

\* requests that can be in flight at once
MaxConns == 2

\* the clock of the process advances in this many steps to the delay
NumTicks == 4

StepMs == CeilDiv(ForceExitMs, NumTicks)

\* a timer that fires halfway to its delay
TimerDueEarly(since) == 2 * since >= ForceExitMs

\* setTimeout(..., 10000): the callback runs no earlier than the delay
TimerDue(since) == since >= ForceExitMs

\* what the process leaves alone
notProc ==
    <<clk, redisUp, dbUp, redisHung, redisStore, dbUsage, handlers,
      routeLimits, routeLimitCache, rt, keyed, procCache, ratePlans, ops,
      cch>>

Running == proc.exit = Undef

\* a client opens a request while the listener accepts connections
ConnOpen ==
    /\ Running
    /\ proc.server = "listening"
    /\ proc.conns < MaxConns
    /\ proc' = [proc EXCEPT !.conns = @ + 1]
    /\ UNCHANGED notProc

\* a request in flight ends
ConnEnd ==
    /\ Running
    /\ proc.conns > 0
    /\ proc' = [proc EXCEPT !.conns = @ - 1]
    /\ UNCHANGED notProc

\* SIGTERM or SIGINT: shutdown(signal) calls server.close(callback), which
\* stops the listener and keeps the callback for the 'close' event (a
\* callback given after that event is never called), and starts a timer
ShutSignal ==
    /\ Running
    /\ proc.signals < NumSignals
    /\ \E signal \in {"SIGTERM", "SIGINT"} :
        proc' = [proc EXCEPT
                   !.signals = @ + 1,
                   !.server = IF @ = "listening" THEN "closing" ELSE @,
                   !.cbs = IF proc.server = "closed" THEN @ ELSE @ + 1]
    /\ UNCHANGED notProc

\* the 'close' event: the listener is stopped and no connection is left; the
\* callbacks log 'HTTP server closed' and call prisma.$disconnect()
ServerClose ==
    /\ Running
    /\ proc.server = "closing"
    /\ proc.conns = 0
    /\ proc' = [proc EXCEPT !.server = "closed", !.db = "closing",
                            !.log = Append(@, "server")]
    /\ UNCHANGED notProc

\* prisma.$disconnect() settles (it resolves, or it rejects and the error is
\* logged); the callback goes on to redis.disconnect() (which returns, or
\* throws and the error is logged) and process.exit(0)
DbSettle ==
    /\ Running
    /\ proc.db = "closing"
    /\ \E dbOk \in BOOLEAN : \E redisOk \in BOOLEAN :
        proc' = [proc EXCEPT
                   !.db = IF dbOk THEN "closed" ELSE "failed",
                   !.redis = IF redisOk THEN "closed" ELSE "failed",
                   !.log = @ \o <<IF dbOk THEN "db" ELSE "db_error",
                                  IF redisOk THEN "redis" ELSE "redis_error">>,
                   !.exit = 0]
    /\ UNCHANGED notProc

\* time passes after the first signal
ShutTick ==
    /\ Running
    /\ proc.signals > 0
    /\ proc.since < ForceExitMs
    /\ proc' = [proc EXCEPT !.since = @ + StepMs]
    /\ UNCHANGED notProc

\* the timer of the first signal fires: process.exit(1)
ForceExit ==
    /\ Running
    /\ proc.signals > 0
    /\ TimerDue(proc.since)
    /\ proc' = [proc EXCEPT !.exit = 1]
    /\ UNCHANGED notProc

InitShutdown ==
    /\ InitBase
    /\ cfg = NoConfig
    /\ plan = NoPlan
    /\ routeLimits = <<>>
    /\ keyed = NotKeyed
    /\ procCache = NoProcCache
    /\ ratePlans = NoPlans
    /\ ops = NoOps
    /\ proc \in {Serving(n) : n \in 0..MaxConns}
    /\ cch = NoCache

NextShutdown ==
    \/ ConnOpen
    \/ ConnEnd
    \/ ShutSignal
    \/ ServerClose
    \/ DbSettle
    \/ ShutTick
    \/ ForceExit

\* the clock of the process runs and its timers fire; nothing makes a client
\* end its request or the database client settle
FairShutdown == WF_vars(ShutTick) /\ WF_vars(ForceExit)

SpecShutdown == InitShutdown /\ [][NextShutdown]_vars /\ FairShutdown

--------------------------------------------------------------------------
(* The client address: 'trust proxy', req.ip and getClientIp *)

\* app.set('trust proxy', ...): 1 hop in production, 'loopback' otherwise
TrustSettings == {"hop1", "loopback"}

Loopback == "127.0.0.1"

\* the connections requests come on
Conns ==
    [trust : TrustSettings,
     remote : {None, Loopback, "10.0.0.1"},
     xff : {<<>>, <<"6.6.6.6">>, <<"6.6.6.6", "7.7.7.7">>}]

\* the trust function Express compiles from the setting, for the address at
\* position i (0 is the socket): a hop count trusts the first hops, 'loopback'
\* trusts loopback addresses
Trusts(trust, addr, i) ==
    IF trust = "hop1" THEN i < 1 ELSE addr = Loopback

\* the socket address followed by the entries of X-Forwarded-For, nearest
\* first
Addrs(conn) ==
    <<conn.remote>> \o [i \in 1..Len(conn.xff) |->
                           conn.xff[Len(conn.xff) + 1 - i]]

\* req.ip: the first address that is not trusted, or the farthest one
ReqIp(conn) ==
    LET addrs == Addrs(conn)
        stop == {i \in 1..Len(addrs) :
                    i = Len(addrs) \/ ~Trusts(conn.trust, addrs[i], i - 1)}
    IN  addrs[CHOOSE i \in stop : \A j \in stop : i <= j]

\* the request as the handler sees it: req.ip, and the first entry of the
\* x-forwarded-for header (forwarded.split(',')[0].trim())
ExpressReq(conn) ==
    [ip |-> ReqIp(conn),
     forwarded |-> IF conn.xff = <<>> THEN None ELSE conn.xff[1],
     apiKeyId |-> None]

\* a request arrives on its connection at a limiter in IP mode
IpArrive(r) ==
    /\ rl[r].pc = "idle"
    /\ \A q \in Reqs : q < r => rl[q].pc # "idle"
    /\ RLEnter(r, ExpressReq(rl[r].conn))
    /\ UNCHANGED <<clk, redisUp, dbUp, redisStore, dbUsage, cfg, notRl, redisHung, route>>

InitIp ==
    /\ InitEnv
    /\ rl \in [Reqs -> {[RlIdle EXCEPT !.conn = c] : c \in Conns}]
    /\ pl = [r \in Reqs |-> PlIdle]
    /\ chain = [r \in Reqs |-> ChainIdle]
    /\ cfg = NoConfig
    /\ plan = NoPlan
    /\ routeLimits = <<>>
    /\ keyed = NotKeyed
    /\ procCache = NoProcCache
    /\ ratePlans = NoPlans
    /\ ops = NoOps
    /\ proc = Serving(0)
    /\ cch = NoCache

NextIp ==
    \/ \E r \in Reqs : IpArrive(r)
    \/ \E r \in Reqs : RLIncr(r)
    \/ \E r \in Reqs : RLExpire(r)
    \/ Tick

SpecIp == InitIp /\ [][NextIp]_vars

--------------------------------------------------------------------------
(* cacheResponse: the cache of GET responses *)

\* the credentials a request can carry: none, the keys of two users, and
\* the text "anon"
Creds == {<<>>, <<"rl_1">>, <<"rl_2">>, <<"anon">>}

\* req.originalUrl
Urls == {<<"/a">>, <<"/b">>}

\* const safeKeyPart = apiKey ? `${apiKey}:` : 'anon:';
\* const key = `cache:${safeKeyPart}${req.originalUrl}`
CacheKey(cred, url) ==
    <<"cache:">> \o (IF cred = <<>> THEN <<"anon">> ELSE cred) \o <<":">> \o url

\* what the route's handler answers to a request: the body is made for the
\* credential of the request
Answer(cred, url) == <<[for |-> cred, url |-> url]>>

\* what cacheResponse leaves alone
notCache ==
    <<clk, dbUp, redisHung, redisStore, dbUsage, handlers, routeLimits,
      routeLimitCache, rt, keyed, procCache, ratePlans, ops, proc>>

\* the middleware up to next(): a request that is no GET, or one that comes
\* while Redis is not ready, is passed on as it is; otherwise redis.get(key)
\* answers the request from the cache or res.send is replaced
CacheLookup(r) ==
    /\ cch.rq[r].pc = "idle"
    /\ \A q \in Reqs : q < r => cch.rq[q].pc # "idle"
    /\ \E method \in {"GET", "POST"} : \E url \in Urls : \E cred \in Creds :
        LET key == CacheKey(cred, url)
            req == [CrIdle EXCEPT !.method = method, !.url = url,
                                  !.cred = cred]
        IN  cch' = [cch EXCEPT !["rq"][r] =
                        IF method # "GET" \/ ~redisUp
                        THEN [req EXCEPT !.pc = "handler"]
                        ELSE IF key \in DOMAIN cch.store
                        THEN [req EXCEPT !.pc = "done", !.hit = TRUE,
                                         !.status = 200,
                                         !.body = cch.store[key].body]
                        ELSE [req EXCEPT !.pc = "handler",
                                         !.patched = TRUE]]
    /\ UNCHANGED <<redisUp, notCache>>

\* setex(key, ttl, str): the entry with the request it was stored for
Stored(store, key, req, status, body) ==
    [k \in DOMAIN store \cup {key} |->
        IF k = key
        THEN [body |-> body, method |-> req.method, status |-> status,
              cred |-> req.cred]
        ELSE store[k]]

\* the route's handler answers with res.send(body); the replaced send stores
\* the body when res.statusCode is 200 and Redis takes the command
CacheSend(r) ==
    /\ cch.rq[r].pc = "handler"
    /\ \E status \in {200, 404} :
        LET req == cch.rq[r]
            body == Answer(req.cred, req.url)
        IN  cch' = [cch EXCEPT
                      !["rq"][r] = [req EXCEPT !.pc = "done",
                                               !.status = status,
                                               !.body = body],
                      !["store"] =
                          IF req.patched /\ status = 200 /\ redisUp
                          THEN Stored(@, CacheKey(req.cred, req.url), req,
                                      status, body)
                          ELSE @]
    /\ UNCHANGED <<redisUp, notCache>>

\* the time to live of an entry ends
CacheExpire ==
    /\ \E key \in DOMAIN cch.store :
        cch' = [cch EXCEPT !["store"] =
                  [k \in DOMAIN cch.store \ {key} |-> cch.store[k]]]
    /\ UNCHANGED <<redisUp, notCache>>

\* Redis stops or starts being ready
CacheRedisFlip ==
    /\ redisUp' = ~redisUp
    /\ UNCHANGED <<cch, notCache>>

InitCache ==
    /\ InitBase
    /\ cfg = NoConfig
    /\ plan = NoPlan
    /\ routeLimits = <<>>
    /\ keyed = NotKeyed
    /\ procCache = NoProcCache
    /\ ratePlans = NoPlans
    /\ ops = NoOps
    /\ proc = Serving(0)
    /\ cch = NoCache

NextCache ==
    \/ \E r \in Reqs : CacheLookup(r)
    \/ \E r \in Reqs : CacheSend(r)
    \/ CacheExpire
    \/ CacheRedisFlip

SpecCache == InitCache /\ [][NextCache]_vars

--------------------------------------------------------------------------
(* Two createRateLimiter instances on the same store *)

\* the configurations of an instance in IP mode: the windows of
\* apiRateLimiter (a minute) and of authRateLimiter (15 minutes)
InstConfigs ==
    [windowMs : {MinuteMs, 15 * MinuteMs},
     maxRequests : 1..MaxLimit,
     weight : 0..MaxWeight,
     identifierType : {"ip"}]

Insts == 1..2

\* the handler of instance i on a request of the client: the identifier, the
\* clock, the pipeline (INCRBY key weight, EXPIRE key ttl GT) executed by
\* the server, and the answer
InstHandle(r, i) ==
    /\ rl[r].pc = "idle"
    /\ \A q \in Reqs : q < r => rl[q].pc # "idle"
    /\ redisUp /\ ~redisHung
    /\ LET c == cfg[i]
           identifier == Identifier(c, AuthRequest)
           key == RlKey(identifier, BucketStart(Now, c.windowMs))
           counted == RedisIncrBy(redisStore, key, Weight(c))
           count == RedisCount(counted, key)
       IN  /\ redisStore' = RedisExpireGT(counted, key,
                                          TtlSeconds(Now, c.windowMs), Now)
           /\ rl' = [rl EXCEPT ![r].pc = "done",
                               ![r].identifier = identifier,
                               ![r].now = Now,
                               ![r].count = count,
                               ![r].inst = i,
                               ![r].resp = RlRespond(c, Now, count)]
    /\ UNCHANGED <<clk, redisUp, dbUp, dbUsage, cfg, notRl, redisHung, route>>

InitInsts ==
    /\ InitBase
    /\ cfg \in [Insts -> InstConfigs]
    /\ plan = NoPlan
    /\ routeLimits = <<>>
    /\ keyed = NotKeyed
    /\ procCache = NoProcCache
    /\ ratePlans = NoPlans
    /\ ops = NoOps
    /\ proc = Serving(0)
    /\ cch = NoCache

NextInsts ==
    \/ \E r \in Reqs : \E i \in Insts : InstHandle(r, i)
    \/ Tick

SpecInsts == InitInsts /\ [][NextInsts]_vars

--------------------------------------------------------------------------
(* The bucket keys of increments at arbitrary instants *)

\* number of instants the increments are drawn from
NumKeyInstants == 5

\* the instants, on both sides of the boundaries: the last millisecond of day
\* 0 and the first of day 1 (a new minute, hour and day), the last millisecond
\* of the first minute of day 1 and the first of the next one, the last
\* millisecond of its first hour, and then every hour after that
KeyInstant(n) ==
    CASE n = 1 -> DayMs - 1
      [] n = 2 -> DayMs
      [] n = 3 -> DayMs + MinuteMs - 1
      [] n = 4 -> DayMs + MinuteMs
      [] n = 5 -> DayMs + HourMs - 1
      [] OTHER -> DayMs + (n - 5) * HourMs

KeyInstants == {KeyInstant(n) : n \in 1..NumKeyInstants}

\* the windowMs of the configurations of the createRateLimiter instances
\* (1 second, 1 minute, 1 hour)
KeyWindows == {MsPerSecond, MinuteMs, HourMs}

\* one request at instant keyed[j].t: the key createRateLimiter builds from
\* now = Date.now(), and the keys the three incrementCounter calls of
\* recordRequest build from getBucketTimestamp(period)
KeyIncrement(j) ==
    /\ ~keyed[j].done
    /\ keyed' = [keyed EXCEPT
                   ![j].done = TRUE,
                   ![j].rl = RlKey("ip1", BucketStart(keyed[j].t, cfg.windowMs)),
                   ![j].usage = [i \in 1..3 |->
                                    UsageKey("k1", Periods[i], keyed[j].t)]]
    /\ UNCHANGED <<clk, redisUp, dbUp, redisHung, redisStore, dbUsage,
                   handlers, routeLimits, routeLimitCache, rt, procCache, ratePlans, ops, proc, cch>>

InitKeys ==
    /\ InitBase
    /\ cfg \in {[NoConfig EXCEPT !.windowMs = w] : w \in KeyWindows}
    /\ plan = NoPlan
    /\ routeLimits = <<>>
    /\ keyed \in [Reqs -> {KeyIdle(t) : t \in KeyInstants}]
    /\ procCache = NoProcCache
    /\ ratePlans = NoPlans
    /\ ops = NoOps
    /\ proc = Serving(0)
    /\ cch = NoCache

NextKeys == \E j \in Reqs : KeyIncrement(j)

SpecKeys == InitKeys /\ [][NextKeys]_vars

--------------------------------------------------------------------------
(* Specification of the protected router *)

InitChain ==
    /\ InitBase
    /\ cfg = NoConfig
    /\ plan \in Plans
    /\ routeLimits \in RouteLists
    /\ keyed = NotKeyed
    /\ procCache = NoProcCache
    /\ ratePlans = NoPlans
    /\ ops = NoOps
    /\ proc = Serving(0)
    /\ cch = NoCache

NextChain ==
    \/ \E r \in Reqs : ChainStart(r)
    \/ \E r \in Reqs : ChainAuth(r)
    \/ \E r \in Reqs : ChainLimit(r)
    \/ \E r \in Reqs : ChainLimited(r)
    \/ \E r \in Reqs : ChainRoute(r)
    \/ RevokeKey
    \/ Tick

SpecChain == InitChain /\ [][NextChain]_vars

--------------------------------------------------------------------------
(* Properties of createRateLimiter *)

\* the requests whose INCRBY the server has executed on key k
RlIncremented(k) ==
    {r \in Reqs : /\ rl[r].pc \in {"expire", "done"}
                  /\ rl[r].identifier # None
                  /\ rl[r].count # Undef
                  /\ RlBucketKey(r) = k}

\* the requests on key k that were passed on
RlAdmitted(k) ==
    {r \in RlIncremented(k) : rl[r].pc = "done" /\ rl[r].resp.out = "next"}

\* the requests on key k that were answered
RlAnswered(k) == {r \in RlIncremented(k) : rl[r].pc = "done"}

RlKeys ==
    {RlBucketKey(r) : r \in {q \in Reqs : rl[q].identifier # None}}

\* C1: no lost updates.  While a bucket's window lasts, its count is the
\* weight times the number of INCRBY commands the server has executed on it,
\* whatever the interleaving of the requests.
C1_NoLostUpdates ==
    \A k \in RlKeys :
        Now < k.start + cfg.windowMs =>
            RedisCount(redisStore, k) = Weight(cfg) * Cardinality(RlIncremented(k))

\* two requests have incremented one bucket by a weight of 2 each
C1_Witness ==
    \E k \in RlKeys :
        /\ Cardinality(RlIncremented(k)) = 2
        /\ Weight(cfg) = 2
        /\ RedisCount(redisStore, k) = 4

C9_RedisFailureFallsBack ==
    \A r \in Reqs :
        (rl[r].pc = "done" /\ rl[r].identifier # None /\ dbUp) =>
            /\ rl[r].resp.status # 500
            /\ rl[r].count # Undef

--------------------------------------------------------------------------
(* Properties of the plan based limiter *)

\* the requests for which checkRateLimits has returned a decision
Decided == {r \in DOMAIN pl : pl[r].pc \in {"rec", "done"} /\ pl[r].tDec # 0}

\* the requests that passed the check
PlAdmitted == {r \in Decided : pl[r].dec.isAllowed}

\* the decision carries limit, remaining and reset time of status s
Reports(d, s) ==
    /\ d.limit = s.limit
    /\ d.remaining = s.remaining
    /\ d.resetTime = s.resetTime

\* C2 (as claimed): for a period with limit L > 0, at most L requests pass
\* the check within one window of that period.
C2_AtMostLimitAdmitted ==
    \A i \in 1..3 :
        PlanLimit(plan, i) > 0 =>
            \A r \in PlAdmitted :
                Cardinality({q \in PlAdmitted :
                    getBucketTimestamp(Periods[i], pl[q].tDec)
                      = getBucketTimestamp(Periods[i], pl[r].tDec)})
                  <= PlanLimit(plan, i)

\* C5: a decision with a status that is not allowed is a denial carrying the
\* limit, remaining and reset time of the first such status in the order
\* MINUTE, HOUR, DAY, which are the limit of that period in the plan, a
\* remaining of 0 and an end of a window of that period.
C5_DenialReportsFirstViolated ==
    \A r \in Decided :
        LET st == pl[r].st
            d == pl[r].dec
        IN  \A i \in 1..3 :
              (~st[i].isAllowed /\ \A j \in 1..3 : j < i => st[j].isAllowed) =>
                  /\ ~d.isAllowed
                  /\ d.hasRetry
                  /\ Reports(d, st[i])
                  /\ d.limit = PlanLimit(plan, i)
                  /\ d.remaining = 0
                  /\ d.resetTime % PeriodMs(Periods[i]) = 0
                  /\ pl[r].pc = "done" /\ pl[r].resp.status = 429

\* the minute and the hour are both used up, and the denial carries the end
\* of the minute, which is not the end of the hour
C5_Witness ==
    \E r \in Decided :
        /\ ~pl[r].st[1].isAllowed
        /\ ~pl[r].st[2].isAllowed
        /\ pl[r].st[1].resetTime # pl[r].st[2].resetTime
        /\ pl[r].dec.resetTime = pl[r].st[1].resetTime
        /\ ~pl[r].dec.isAllowed

\* C6: a decision whose three statuses are all allowed is an admission
\* without retryAfter carrying the limit, remaining and reset time of a
\* status whose remaining is the smallest of the three.
C6_AllowReportsSmallestRemaining ==
    \A r \in Decided :
        LET st == pl[r].st
            d == pl[r].dec
        IN  (\A i \in 1..3 : st[i].isAllowed) =>
              /\ d.isAllowed
              /\ ~d.hasRetry
              /\ \E i \in 1..3 :
                   /\ Reports(d, st[i])
                   /\ \A j \in 1..3 : st[i].remaining <= st[j].remaining

\* all limits are set, and the status reported is that of the hour although
\* the minute has the smaller limit: the hour has less remaining
C6_Witness ==
    \E r \in Decided :
        /\ \A i \in 1..3 : PlanLimit(plan, i) > 0
        /\ pl[r].dec.isAllowed
        /\ Reports(pl[r].dec, pl[r].st[2])
        /\ pl[r].st[1].limit < pl[r].st[2].limit
        /\ pl[r].st[2].remaining < pl[r].st[1].remaining

\* C7 (as claimed): a period whose limit is 0 is never denied and, when
\* another period has a limit, is never the period the decision reports.
C7_ZeroLimitNeverReported ==
    \A r \in Decided :
        \A i \in 1..3 :
            PlanLimit(plan, i) = 0 =>
                /\ pl[r].st[i].isAllowed
                /\ (\E j \in 1..3 : PlanLimit(plan, j) > 0) => pl[r].dec.limit # 0

\* the buckets of period i in the shared store
RedisBuckets(i) == {k \in DOMAIN redisStore : k.ns = "usage" /\ k.per = Periods[i]}

Recorded(i) ==
    {r \in PlAdmitted : pl[r].pc = "done" \/ (pl[r].pc = "rec" /\ pl[r].per > i)}

\* The increments of incrementCounter are not lost either: until its window
\* ends, a bucket of the plan based limiter holds the number of admitted
\* requests recorded in it, under any interleaving of the requests.
PlanNoLostUpdates ==
    \A i \in 1..3 :
        \A r \in Recorded(i) :
            LET k == UsageKey(pl[r].apiKeyId, Periods[i], pl[r].tDec) IN
            Now < k.start + PeriodMs(Periods[i]) =>
                RedisCount(redisStore, k) =
                    Cardinality({q \in Recorded(i) :
                        UsageKey(pl[q].apiKeyId, Periods[i], pl[q].tDec) = k})

C10_FailOpen ==
    [][\A r \in DOMAIN pl :
          (~redisUp /\ ~dbUp /\ pl[r].pc # "done" /\ pl'[r].pc = "done")
              => pl'[r].resp.out = "next"]_vars

\* C4 (as claimed): a request with an ACTIVE key that reaches a handler of
\* the protected router has been checked against its plan and recorded.
C4_HandlerBehindPlanLimiter ==
    \A r \in Reqs :
        chain[r].pc = "handler" =>
            /\ r \in PlAdmitted
            /\ pl[r].pc = "done"


--------------------------------------------------------------------------
(* Properties of the fallback counter *)

\* the requests admitted and recorded before request r in the window of
\* period i in which r was decided
RecordedBefore(r, i) ==
    {q \in PlAdmitted :
        /\ q < r
        /\ pl[q].pc = "done"
        /\ getBucketTimestamp(Periods[i], pl[q].tDec)
             = getBucketTimestamp(Periods[i], pl[r].tDec)}

\* C11 (as claimed): while the shared store is down, the count the fallback
\* reads for a period with limit L is the number k of requests admitted
\* before in the window, and a request arriving when k has reached L is
\* denied.
C11_FallbackCounts ==
    \A r \in Decided :
        \A i \in 1..3 :
            LET L == PlanLimit(plan, i)
                k == Cardinality(RecordedBefore(r, i))
            IN  L > 0 =>
                  /\ pl[r].st[i].remaining = Max(0, L - k)
                  /\ k >= L => ~pl[r].dec.isAllowed

--------------------------------------------------------------------------
(* Termination of the handlers *)

\* C12 (as claimed): every request that has entered createRateLimiter gets
\* its decision in the end, also when the store stops replying.
C12_EventuallyDecided ==
    \A r \in Reqs : (rl[r].pc = "incr") ~> (rl[r].pc = "done")

--------------------------------------------------------------------------
(* The remaining value *)

\* limit - count where that is positive, else 0
Clamped(limit, count) == IF count < limit THEN limit - count ELSE 0

CountedBefore(r, i) ==
    {q \in PlAdmitted :
        /\ q < r
        /\ pl[q].pc = "done"
        /\ getBucketTimestamp(Periods[i], pl[q].tDec)
             = pl[r].st[i].bucket}

\* The same for the plan based limiter handling one request after the other:
\* the remaining of a status, of the decision and of the header is the limit
\* less the requests counted in the window, clamped at 0 (for a status whose
\* window was still open at the decision: the bucket of a window that ended
\* between the two clock samples may have expired before it was read).
PlanRemainingClamped ==
    \A r \in Decided :
        /\ \A i \in 1..3 :
             (/\ PlanLimit(plan, i) > 0
              /\ pl[r].st[i].bucket = getBucketTimestamp(Periods[i], pl[r].tDec)) =>
                 pl[r].st[i].remaining =
                     Clamped(PlanLimit(plan, i), Cardinality(CountedBefore(r, i)))
        /\ \A i \in 1..3 : pl[r].st[i].remaining >= 0
        /\ pl[r].dec.remaining >= 0
        /\ pl[r].resp.remaining = pl[r].dec.remaining

\* The same for the route limiter: the header of a request passed on on a
\* matched route is the limit less the count of the record, clamped at 0.
RouteRemainingClamped ==
    \A r \in Reqs :
        (rt[r].pc = "done" /\ rt[r].headers) =>
            /\ rt[r].resp.limit = routeLimits[rt[r].matched].requestsPerMinute
            /\ rt[r].resp.remaining = Clamped(rt[r].resp.limit, rt[r].count)
            /\ rt[r].resp.remaining >= 0

--------------------------------------------------------------------------
(* The reset time *)

\* C14 (as claimed): the reset time of every status that was derived from a
\* bucket is the end of the window of that bucket: its start plus the
\* duration of the period.
C14_ResetIsWindowEnd ==
    \A r \in Decided :
        \A i \in 1..3 :
            PlanLimit(plan, i) > 0 =>
                pl[r].st[i].resetTime = pl[r].st[i].bucket + PeriodMs(Periods[i])

\* C15 (as claimed): no step moves the expiry of a bucket key that has one to
\* an earlier instant.
C15_ExpiryNeverDecreases ==
    [][\A k \in DOMAIN redisStore \cap DOMAIN redisStore' :
          redisStore[k].exp # NoExpiry =>
              redisStore'[k].exp >= redisStore[k].exp]_vars

\* C16 (as claimed): every bucket key in the store whose increment pipeline
\* has completed (no request is between its INCRBY and its EXPIRE) carries an
\* expiry.
C16_EveryBucketExpires ==
    \A k \in DOMAIN redisStore :
        (\A r \in Reqs : rl[r].pc = "expire" => RlBucketKey(r) # k) =>
            redisStore[k].exp # NoExpiry

\* the end of the window of a bucket key of the plan based limiter
WindowEnd(k) == k.start + PeriodMs(k.per)

\* C17: no bucket key counted by incrementCounter has an expiry that is
\* earlier than the end of its window, and none is evicted before that end:
\* the bucket of the window of every recorded request is in the store as long
\* as the window lasts.
C17_NoExpiryBeforeWindowEnd ==
    /\ \A k \in DOMAIN redisStore :
           redisStore[k].exp # NoExpiry => redisStore[k].exp >= WindowEnd(k)
    /\ \A i \in 1..3 :
           \A r \in Recorded(i) :
               LET k == UsageKey(pl[r].apiKeyId, Periods[i], pl[r].tDec) IN
               Now < WindowEnd(k) => k \in DOMAIN redisStore

\* a bucket counted by an increment, with the expiry exactly at the end of its
\* window, after the clock has moved on inside the window
C17_Witness ==
    /\ clk > 1
    /\ \E k \in DOMAIN redisStore :
           /\ k.ns = "usage"
           /\ redisStore[k].count >= 1
           /\ redisStore[k].exp = WindowEnd(k)

\* the increments whose keys have been built
Keyed == {j \in Reqs : keyed[j].done}

\* instants a and b lie in the same window [k * len, (k + 1) * len)
SameWindow(a, b, len) == a \div len = b \div len

\* instant t lies in the window of length len that starts at start, and the
\* window is aligned
InWindow(t, start, len) ==
    /\ start % len = 0
    /\ start <= t
    /\ t < start + len

\* C18: the bucket key of an increment is that of the aligned window its
\* instant falls in: two increments use the same key of createRateLimiter
\* exactly when their instants are in the same window of windowMs, and the
\* same key of incrementCounter for a period exactly when their instants are
\* in the same window of that period.
C18_WindowAlignment ==
    \A a \in Keyed :
        /\ InWindow(keyed[a].t, keyed[a].rl.start, cfg.windowMs)
        /\ \A i \in 1..3 :
               InWindow(keyed[a].t, keyed[a].usage[i].start, PeriodMs(Periods[i]))
        /\ \A b \in Keyed :
               /\ keyed[a].rl = keyed[b].rl
                    <=> SameWindow(keyed[a].t, keyed[b].t, cfg.windowMs)
               /\ \A i \in 1..3 :
                      keyed[a].usage[i] = keyed[b].usage[i]
                        <=> SameWindow(keyed[a].t, keyed[b].t, PeriodMs(Periods[i]))

\* two increments 1 ms apart on the two sides of a boundary of every period
\* (and of windowMs), with different keys
C18_Witness ==
    \E a \in Keyed : \E b \in Keyed :
        /\ keyed[b].t = keyed[a].t + 1
        /\ keyed[a].rl # keyed[b].rl
        /\ \A i \in 1..3 : keyed[a].usage[i] # keyed[b].usage[i]

\* the requests rejected because no identifier could be resolved
RlUnidentified ==
    {r \in Reqs : /\ rl[r].pc = "done"
                  /\ cfg.identifierType = "apiKey"
                  /\ rl[r].identifier = None
                  /\ rl[r].resp.out = "error"}

\* C19 (as claimed): the rejection of a request without identifier differs in
\* status or in error code from the rejection of a request over its quota.
C19_IdentifierFailureDistinct ==
    \A r \in RlUnidentified :
        LET denial == RateLimited(NoResp) IN
        rl[r].resp.status # denial.status \/ rl[r].resp.code # denial.code

\* the entries of the list whose pattern matches the path of request r
RouteHits(r) ==
    {i \in DOMAIN routeLimits : Test(routeLimits[i].pattern, rt[r].path)}

\* the requests with an API key the route limiter has handled
RouteHandled == {r \in Reqs : rt[r].pc = "done" /\ rt[r].apiKeyId # None}

\* C20: the entry applied to a request is the first one in list order whose
\* pattern matches its path: the limit in the headers and the limit a denial
\* enforces are that entry's, an entry without per-minute limit applies none
\* even when a later entry matches as well, and when no pattern matches the
\* request is passed on without headers and without a record in the cache.
C20_FirstMatchWins ==
    \A r \in RouteHandled :
        IF RouteHits(r) = {}
        THEN /\ rt[r].matched = 0
             /\ rt[r].resp.out = "next"
             /\ ~rt[r].headers
             /\ RouteKey(rt[r].apiKeyId, rt[r].path) \notin DOMAIN routeLimitCache
        ELSE LET m == rt[r].matched
                 rpm == routeLimits[m].requestsPerMinute
             IN  /\ m \in RouteHits(r)
                 /\ \A j \in RouteHits(r) : m <= j
                 /\ rt[r].headers => rt[r].resp.limit = rpm
                 /\ rt[r].resp.out = "error" => rpm > 0 /\ rt[r].count > rpm
                 /\ rpm = 0 => rt[r].resp.out = "next" /\ ~rt[r].headers
                 /\ (rpm > 0 /\ rt[r].count <= rpm) => rt[r].headers

\* a request whose path is matched by two entries, the second one without
\* the limit of the first, and that got the headers of the first one
C20_Witness ==
    \E r \in RouteHandled :
        /\ Cardinality(RouteHits(r)) >= 2
        /\ \E i \in RouteHits(r) : \E j \in RouteHits(r) :
               /\ i < j
               /\ routeLimits[i].requestsPerMinute # routeLimits[j].requestsPerMinute
        /\ rt[r].headers

--------------------------------------------------------------------------
(* Properties of the route overrides in the protected router *)

\* the requests that reached a handler of the protected router
AtHandler == {r \in Reqs : chain[r].pc = "handler"}

\* the per-minute limit of the override applied to the path of request r, 0
\* when no entry matches or the first match has none
OverrideLimit(r) ==
    LET m == getRouteLimit(rt[r].path, routeLimits) IN
    IF m = 0 THEN 0 ELSE routeLimits[m].requestsPerMinute

\* the requests of the caller of r to the path of r that reached the handler
\* less than a minute before or after r
HandledWith(r) ==
    {q \in AtHandler :
        /\ chain[q].req.apiKey = chain[r].req.apiKey
        /\ rt[q].path = rt[r].path
        /\ rt[q].now - rt[r].now < MinuteMs
        /\ rt[r].now - rt[q].now < MinuteMs}

\* C21 (as claimed): of the calls of one caller to a route with an override
\* of R requests per minute, at most R reach the handler within a minute.
C21_RouteOverrideEnforced ==
    \A r \in AtHandler :
        OverrideLimit(r) > 0 => Cardinality(HandledWith(r)) <= OverrideLimit(r)

\* The route limiter by itself, for requests that carry req.apiKeyId: of the
\* requests of one key to one path within a minute, at most as many as the
\* override allows are passed on.
RouteAdmitsAtMostLimit ==
    \A r \in RouteHandled :
        (rt[r].resp.out = "next" /\ rt[r].matched > 0
         /\ routeLimits[rt[r].matched].requestsPerMinute > 0) =>
            Cardinality({q \in RouteHandled :
                            /\ rt[q].resp.out = "next"
                            /\ rt[q].apiKeyId = rt[r].apiKeyId
                            /\ rt[q].path = rt[r].path})
                <= routeLimits[rt[r].matched].requestsPerMinute

\* C22 (as claimed): a request of a caller with a valid key whose path matches
\* an override with a per-minute limit is decided by that override: the
\* override is the entry applied to it, the limit it reports is the
\* override's, and the plan of the caller is not consulted for it.
C22_OverrideReplacesPlan ==
    \A r \in Reqs :
        (/\ rt[r].pc = "done"
         /\ chain[r].req.apiKey # None
         /\ OverrideLimit(r) > 0) =>
            /\ rt[r].matched = getRouteLimit(rt[r].path, routeLimits)
            /\ rt[r].resp.out = "next" =>
                   rt[r].headers /\ rt[r].resp.limit = OverrideLimit(r)
            /\ r \notin Decided

\* C23 (as claimed): of the requests of one key to one path within one hour,
\* at most as many as the requestsPerHour of the matched override are passed
\* on.
C23_HourlyOverrideEnforced ==
    \A r \in RouteHandled :
        (rt[r].resp.out = "next" /\ rt[r].matched > 0) =>
            Cardinality({q \in RouteHandled :
                            /\ rt[q].resp.out = "next"
                            /\ rt[q].apiKeyId = rt[r].apiKeyId
                            /\ rt[q].path = rt[r].path
                            /\ getBucketTimestamp("HOUR", rt[q].now)
                                 = getBucketTimestamp("HOUR", rt[r].now)})
                <= routeLimits[rt[r].matched].requestsPerHour

\* the requests the route limiter passed on under the override of index m
PassedUnder(m, k, path) ==
    {q \in RouteHandled :
        /\ rt[q].resp.out = "next"
        /\ rt[q].matched = m
        /\ rt[q].apiKeyId = k
        /\ rt[q].path = path}

\* C24 (as claimed): the requests of one key to one path that the route
\* limiter passes on within one minute, counted over all process instances,
\* do not exceed the per-minute limit of the override.
C24_LimitAcrossInstances ==
    \A m \in DOMAIN routeLimits :
        routeLimits[m].requestsPerMinute > 0 =>
            \A path \in Paths :
                Cardinality(PassedUnder(m, "k1", path))
                    <= routeLimits[m].requestsPerMinute

--------------------------------------------------------------------------
(* Properties of the response headers *)

\* C25 (as claimed): every response decided by apiKeyRateLimitMiddleware
\* carries X-RateLimit-Weight (a weight of 0 in the model is a header that was
\* not set) next to limit, remaining and reset of the decision, carries
\* Retry-After exactly when the request is denied, and a denial is a 429 with
\* code RATE_LIMIT_EXCEEDED.
C25_PlanHeadersComplete ==
    \A r \in Decided :
        pl[r].pc = "done" =>
            /\ pl[r].resp.weight > 0
            /\ pl[r].resp.limit = pl[r].dec.limit
            /\ pl[r].resp.remaining = pl[r].dec.remaining
            /\ pl[r].resp.reset = pl[r].dec.resetTime
            /\ pl[r].resp.hasRetry <=> ~pl[r].dec.isAllowed
            /\ ~pl[r].dec.isAllowed =>
                   pl[r].resp.status = 429 /\ pl[r].resp.code = "RATE_LIMIT_EXCEEDED"

\* The same for createRateLimiter, for the requests answered from a count:
\* the four headers are set, Retry-After exactly on a denial, a denial is a
\* 429 with code RATE_LIMIT_EXCEEDED.
RlHeadersComplete ==
    \A r \in Reqs :
        (rl[r].pc = "done" /\ rl[r].identifier # None /\ rl[r].count # Undef) =>
            /\ rl[r].resp.weight = Weight(cfg)
            /\ rl[r].resp.limit = cfg.maxRequests
            /\ rl[r].resp.reset = BucketStart(rl[r].now, cfg.windowMs) + cfg.windowMs
            /\ rl[r].resp.hasRetry <=> OverLimit(cfg.maxRequests, rl[r].count)
            /\ rl[r].resp.hasRetry <=>
                   (rl[r].resp.status = 429 /\ rl[r].resp.code = "RATE_LIMIT_EXCEEDED")

\* C26 (as claimed): the Retry-After of a request denied by the plan based
\* limiter is ceil((resetTime - now) / 1000) for the reset time of the denied
\* period and the instant of the decision, at least 1 and at most the length
\* of the period in seconds.
C26_RetryAfterExact ==
    \A r \in Decided :
        ~pl[r].dec.isAllowed =>
            LET i == FirstDenied(pl[r].st) IN
            /\ pl[r].resp.hasRetry
            /\ pl[r].resp.retryAfter
                 = CeilDiv(pl[r].st[i].resetTime - pl[r].tDec, MsPerSecond)
            /\ pl[r].resp.retryAfter >= 1
            /\ pl[r].resp.retryAfter * MsPerSecond <= PeriodMs(Periods[i])

\* The same for createRateLimiter, which samples the clock once: Retry-After
\* is ceil((reset - now) / 1000), at least 1 and at most the window.
RlRetryAfterExact ==
    \A r \in Reqs :
        (rl[r].pc = "done" /\ rl[r].resp.hasRetry) =>
            /\ rl[r].resp.retryAfter
                 = CeilDiv(rl[r].resp.reset - rl[r].now, MsPerSecond)
            /\ rl[r].resp.retryAfter >= 1
            /\ rl[r].resp.retryAfter <= CeilDiv(cfg.windowMs, MsPerSecond)

--------------------------------------------------------------------------
(* Properties of the auth routes *)

\* the requests for /register or /login of the client in the window of
\* instant t that were answered
AuthAnswered(t) ==
    {r \in AuthReqs :
        /\ rl[r].pc = "done"
        /\ rl[r].endpoint \in AuthEndpoints
        /\ BucketStart(rl[r].now, AuthConfig.windowMs)
             = BucketStart(t, AuthConfig.windowMs)}

Succeeded(kind) == {o \in OpIds : ops[o].kind = kind /\ ops[o].pc = "ok"}

\* the key of the row with a given id: call o drew the key of row o
KeyOf(id) == generateApiKey(id)

\* a row that is REVOKED is REVOKED after the step, unless the row is gone
StaysRevoked ==
    \A h \in DOMAIN apiKeys :
        apiKeys[h].status = "REVOKED" /\ h \in DOMAIN apiKeys'
            => apiKeys'[h].status = "REVOKED"

\* C28: a revoked API key never authenticates again: once revokeApiKey has
\* succeeded for a key, validateApiKey returns null for that key in every
\* later state, whatever calls (create, regenerate, revoke, delete) follow
\* or run beside it, and no step changes the status of a row from REVOKED
\* back to ACTIVE
C28_RevokedNeverValid ==
    /\ [](\A o \in Succeeded("revoke") :
             validateApiKey(apiKeys, KeyOf(ops[o].keyId)) = None)
    /\ [][StaysRevoked]_vars

\* revokeApiKey has succeeded for a key, and a regenerateApiKey of the same
\* key, whose update found the row REVOKED, has succeeded after it
C28_Witness ==
    \E o \in Succeeded("revoke") : \E q \in Succeeded("regenerate") :
        /\ ops[q].keyId = ops[o].keyId
        /\ ops[o].took = 1
        /\ ops[q].took = 0
        /\ RowsById(apiKeys, ops[o].keyId) # {}


\* the row a call created, when the table still holds it
NewRowIs(o, userId, planId) ==
    \A h \in RowsById(apiKeys, ops[o].newId) :
        apiKeys[h].userId = userId /\ apiKeys[h].planId = planId

\* a successful regenerateApiKey leaves the old key without access and gives
\* the new row the user and the plan of the old one
RegenerateRevokesAndCopies ==
    \A o \in Succeeded("regenerate") :
        /\ validateApiKey(apiKeys, KeyOf(ops[o].keyId)) = None
        /\ ops[o].newId # 0
        /\ NewRowIs(o, ops[o].userId, ops[o].planId)

\* the rows other calls have created for the user of call o
CreatedBeside(o) ==
    {q \in OpIds \ {o} : ops[q].newId # 0 /\ ops[q].userId = ops[o].userId}

\* C29: regenerateApiKey is a replacement under any sequence or interleaving
\* of calls: a successful call leaves the old key REVOKED, creates a new
\* ACTIVE key for the same user and plan, and never leaves the user with
\* more ACTIVE keys than before the call, the keys that other calls have
\* created set aside
C29_RegenerateReplaces ==
    /\ RegenerateRevokesAndCopies
    /\ \A o \in Succeeded("regenerate") :
         Cardinality(ActiveOf(apiKeys, ops[o].userId))
            <= ops[o].before + Cardinality(CreatedBeside(o))


\* at most one row of the RatePlan table is named 'free'
OneFreePlan == Cardinality(PlansNamed(ratePlans, "free")) <= 1

\* C30: the default plan is created when it is needed: createApiKey(userId)
\* without a planId fails for no existing user, also when several such calls
\* run at once while no plan named 'free' exists, and at most one plan named
\* 'free' ever exists
C30_DefaultPlanCreated ==
    /\ \A o \in OpIds :
         ops[o].kind = "create" /\ ops[o].userId \in Users
            => ops[o].pc # "failed"
    /\ OneFreePlan

--------------------------------------------------------------------------
(* Shutdown *)

Exited == proc.exit # Undef

\* the connections of prisma and Redis are touched only once the HTTP server
\* has closed, and the forced exit comes no earlier than its delay
ShutdownOrder ==
    /\ (proc.db # "open" \/ proc.redis # "open") => proc.server = "closed"
    /\ proc.exit = 1 => proc.since >= ForceExitMs

RemainingAfter(r) ==
    {Clamped(PlanLimit(plan, i), Cardinality(CountedBefore(r, i)) + 1) :
        i \in 1..3}

\* the statuses of request r were all read from the windows of its decision
SameWindows(r) ==
    \A i \in 1..3 :
        pl[r].st[i].bucket = getBucketTimestamp(Periods[i], pl[r].tDec)

\* C32: the remaining value reported to an admitted request accounts for
\* that request: under a plan with a limit for every period, the header of a
\* request the plan based limiter admitted is the least of max(0, limit -
\* count) over the periods, count being the bucket after this request was
\* added
C32_RemainingCountsRequest ==
    \A r \in PlAdmitted :
        (/\ pl[r].pc = "done"
         /\ pl[r].resp.out = "next"
         /\ SameWindows(r)
         /\ \A i \in 1..3 : PlanLimit(plan, i) > 0) =>
            /\ pl[r].resp.remaining \in RemainingAfter(r)
            /\ \A v \in RemainingAfter(r) : pl[r].resp.remaining <= v

\* what the plan based limiter reports: the same with the count read before
\* the request is recorded
PlanRemainingBefore ==
    \A r \in PlAdmitted :
        (/\ pl[r].pc = "done"
         /\ pl[r].resp.out = "next"
         /\ SameWindows(r)
         /\ \A i \in 1..3 : PlanLimit(plan, i) > 0) =>
            LET vals == {Clamped(PlanLimit(plan, i),
                                 Cardinality(CountedBefore(r, i))) : i \in 1..3}
            IN  /\ pl[r].resp.remaining \in vals
                /\ \A v \in vals : pl[r].resp.remaining <= v

--------------------------------------------------------------------------
(* The identifier in IP mode *)

\* the requests a limiter in IP mode has taken up
IpResolved == {r \in Reqs : rl[r].pc # "idle"}

\* the entries of the X-Forwarded-For header the client sent
Supplied(conn) == {conn.xff[i] : i \in 1..Len(conn.xff)}

\* C33: in IP mode the identifier comes from the forwarded-address header
\* only when the application trusts the hop the request came through;
\* otherwise it is the address of the connection, and "unknown" when that
\* address cannot be resolved
C33_ForwardedOnlyIfTrusted ==
    \A r \in IpResolved :
        LET conn == rl[r].conn IN
        /\ rl[r].identifier \in Supplied(conn)
             => Trusts(conn.trust, conn.remote, 0)
        /\ ~Trusts(conn.trust, conn.remote, 0)
             => rl[r].identifier =
                   IF conn.remote = None THEN "unknown" ELSE conn.remote

\* with an address on the socket the identifier is req.ip, which follows the
\* trust setting
IpFromSocket ==
    \A r \in IpResolved :
        rl[r].conn.remote # None =>
            /\ rl[r].identifier = ReqIp(rl[r].conn)
            /\ (rl[r].identifier \in Supplied(rl[r].conn)
                  => Trusts(rl[r].conn.trust, rl[r].conn.remote, 0))


--------------------------------------------------------------------------
(* The cache of responses *)

\* the requests answered from the cache
CacheHits == {r \in Reqs : cch.rq[r].pc = "done" /\ cch.rq[r].hit}

\* only responses with status 200 to GET requests are stored
OnlyGetOkStored ==
    \A k \in DOMAIN cch.store :
        cch.store[k].method = "GET" /\ cch.store[k].status = 200

\* C34: cached responses are not shared: a request answered from the cache
\* gets a response that was stored for a request with the same credential
\* (the same API key, or none), and only responses with status 200 to GET
\* requests are stored
C34_CacheNotShared ==
    /\ \A r \in CacheHits :
         \A i \in 1..Len(cch.rq[r].body) :
             cch.rq[r].body[i].for = cch.rq[r].cred
    /\ OnlyGetOkStored

\* the same where neither request carries the text "anon" as its credential
CacheNotSharedIssued ==
    \A r \in CacheHits :
        \A i \in 1..Len(cch.rq[r].body) :
            (cch.rq[r].cred # <<"anon">> /\ cch.rq[r].body[i].for # <<"anon">>)
                => cch.rq[r].body[i].for = cch.rq[r].cred


--------------------------------------------------------------------------
(* Several limiter instances *)

\* the requests instance i handled, up to request r, in the window of r
OwnBefore(r, i) ==
    {q \in Reqs :
        /\ q <= r
        /\ rl[q].pc = "done"
        /\ rl[q].inst = i
        /\ BucketStart(rl[q].now, cfg[i].windowMs)
             = BucketStart(rl[r].now, cfg[i].windowMs)}

\* C35: limiter instances keep independent counts: the count an instance
\* compares against its maxRequests is the weight of the requests that this
\* instance handled for the identifier in the window, whatever another
\* instance handled
C35_InstancesIndependent ==
    \A r \in Reqs : \A i \in Insts :
        (rl[r].pc = "done" /\ rl[r].inst = i) =>
            rl[r].count = Weight(cfg[i]) * Cardinality(OwnBefore(r, i))

\* with windows of different sizes at instants where their starts differ,
\* the counts are those of the instance alone
IndependentApart ==
    \A r \in Reqs : \A i \in Insts :
        (/\ rl[r].pc = "done" /\ rl[r].inst = i
         /\ \A q \in Reqs : \A j \in Insts :
              (rl[q].pc = "done" /\ rl[q].inst = j /\ j # i) =>
                 BucketStart(rl[q].now, cfg[j].windowMs)
                    # BucketStart(rl[r].now, cfg[i].windowMs)) =>
            rl[r].count = Weight(cfg[i]) * Cardinality(OwnBefore(r, i))


--------------------------------------------------------------------------
(* Denied requests and the usage counters *)

\* request r has been denied by the plan limits
PlDenied(r) ==
    pl[r].pc = "done" /\ pl[r].tDec # 0 /\ ~pl[r].dec.isAllowed

\* the step is one of request r, which is not in recordRequest after having
\* been admitted
UnadmittedStep(r) ==
    /\ pl'[r] # pl[r]
    /\ ~(pl[r].pc = "rec" /\ pl[r].dec.isAllowed)

\* C36: a request denied by apiKeyRateLimitMiddleware leaves every usage
\* counter of the API key unchanged, in the shared store and in the fallback
\* store: only the steps of recordRequest of an admitted request write a
\* counter, and a denied request never reaches recordRequest
C36_DeniedNotRecorded ==
    /\ [][\A r \in DOMAIN pl :
            UnadmittedStep(r) => UNCHANGED <<redisStore, dbUsage>>]_vars
    /\ [](\A r \in DOMAIN pl :
            ~pl[r].dec.isAllowed => pl[r].pc # "rec")

\* a request has been denied and answered 429 after another had been
\* admitted and recorded
C36_Witness ==
    \E r \in DOMAIN pl : \E q \in DOMAIN pl :
        /\ PlDenied(r)
        /\ pl[r].resp.status = 429
        /\ q < r
        /\ pl[q].pc = "done"
        /\ pl[q].dec.isAllowed
        /\ pl[q].resp.out = "next"


--------------------------------------------------------------------------
(* The route limit and the pattern *)

\* the requests of the caller of request r that override m matched and the
\* route limiter admitted, made within a minute from request r on
AdmittedUnder(m, r) ==
    {q \in Reqs :
        /\ rt[q].pc = "done"
        /\ rt[q].apiKeyId = rt[r].apiKeyId
        /\ rt[q].matched = m
        /\ rt[q].resp.out = "next"
        /\ rt[q].now >= rt[r].now
        /\ rt[q].now < rt[r].now + MinuteMs}

\* C37: the route limit bounds all traffic matching the pattern: for one
\* caller and one override with requestsPerMinute = R, at most R requests
\* whose path matches the override's pattern are admitted within one
\* window, whatever concrete paths the requests use
C37_PatternBounded ==
    \A m \in DOMAIN routeLimits : \A r \in Reqs :
        (/\ routeLimits[m].requestsPerMinute > 0
         /\ rt[r].pc = "done"
         /\ rt[r].apiKeyId # None
         /\ rt[r].matched = m) =>
            Cardinality(AdmittedUnder(m, r))
                <= routeLimits[m].requestsPerMinute

\* the bound holds for the requests to one concrete path
PathBounded ==
    \A m \in DOMAIN routeLimits : \A r \in Reqs :
        (/\ routeLimits[m].requestsPerMinute > 0
         /\ rt[r].pc = "done"
         /\ rt[r].apiKeyId # None
         /\ rt[r].matched = m) =>
            Cardinality({q \in AdmittedUnder(m, r) : rt[q].path = rt[r].path})
                <= routeLimits[m].requestsPerMinute


--------------------------------------------------------------------------
(* The periodic sweep *)

\* the outcome of the request handled in this step is the outcome the
\* limiter without the sweep gives it
SameAsUnswept(r) ==
    rt'[r] # rt[r] =>
        rt'[r] = RouteHandle(procCache[1], routeLimits, rt'[r].apiKeyId,
                             rt'[r].path, rt'[r].now).rt

\* the records the step removes are records whose window has ended
RemovesEnded ==
    \A key \in DOMAIN routeLimitCache :
        key \notin DOMAIN routeLimitCache' =>
            routeLimitCache[key].resetTime < Now

\* C38: the periodic sweep is unobservable: the route limiter with the
\* sweep and the one without it give every request the same decision and
\* the same headers, and the sweep never removes a record whose window has
\* not ended
C38_SweepUnobservable ==
    /\ [][\A r \in Reqs : SameAsUnswept(r)]_vars
    /\ [][RemovesEnded]_vars

\* the sweep has removed a record, and a request limited by an override has
\* been handled after the window of that record had ended
C38_Witness ==
    \E key \in DOMAIN procCache[1] : \E r \in Reqs :
        /\ key \notin DOMAIN routeLimitCache
        /\ rt[r].pc = "done"
        /\ rt[r].headers
        /\ rt[r].now > procCache[1][key].resetTime


--------------------------------------------------------------------------
(* The owner of a key *)

\* call o, with the arguments rec, is one of revokeApiKey, regenerateApiKey
\* and deleteApiKey for a key that exists and belongs to another user
Foreign(rec) ==
    /\ rec.kind \in {"revoke", "regenerate", "delete"}
    /\ \E h \in DOMAIN apiKeys :
          apiKeys[h].id = rec.keyId /\ apiKeys[h].userId # rec.userId

\* a step of such a call writes nothing and leads to the check or to failure
ForeignStep(o) ==
    (ops'[o] # ops[o] /\ Foreign(ops'[o])) =>
        /\ UNCHANGED <<apiKeys, ratePlans>>
        /\ ops'[o].pc \in {"find", "failed"}

\* such a call, once past findUnique, has failed (as unauthorized, or as not
\* found when it came before the key was created) without having revoked or
\* created a row
ForeignFailed ==
    \A o \in OpIds :
        (Foreign(ops[o]) /\ ops[o].pc \notin {"idle", "find"}) =>
            /\ ops[o].pc = "failed"
            /\ ops[o].err \in {"Unauthorized", "NotFound"}
            /\ ops[o].took = 0
            /\ ops[o].newId = 0
            /\ RowsById(apiKeys, o) = {}

\* C39: only the owner can change a key: revokeApiKey, regenerateApiKey and
\* deleteApiKey called with a userId that does not own the key fail, leave
\* the key's status and existence unchanged and create no new key
C39_OnlyOwnerChanges ==
    /\ [][\A o \in OpIds : ForeignStep(o)]_vars
    /\ []ForeignFailed

\* a call of regenerateApiKey by a user who does not own the key has failed,
\* and the key is there and ACTIVE
C39_Witness ==
    \E o \in OpIds :
        /\ Foreign(ops[o])
        /\ ops[o].kind = "regenerate"
        /\ ops[o].pc = "failed"
        /\ ops[o].err = "Unauthorized"
        /\ findUnique(apiKeys, ops[o].keyId).status = "ACTIVE"

==========================================================================
